---- MODULE Spec2Model ----
(***************************************************************************)
(* Nominal Protocol name registry: the NEAR contract                       *)
(* (src/NEAR/src/lib.rs) and the Solana program                            *)
(* (src/programs/nominal-registry/src/lib.rs) as state machines.           *)
(*                                                                         *)
(* Every public method is a pure operator from the contract state and the  *)
(* call's inputs to an outcome record; an action applies one outcome.      *)
(* Byte strings (names) are tuples of byte values, Option<T> is a tuple of *)
(* length 0 (None) or 1 (Some).                                            *)
(***************************************************************************)
EXTENDS Integers, Sequences, FiniteSets, TLC

\* ---------------------------------------------------------------- bounds
\* Block timestamps and updated_at range over 0..MaxTime.
MaxTime == 1
\* Nonces supplied by callers range over 0..MaxNonce.
MaxNonce == 1

\* ------------------------------------------------------ program constants
BPS_DENOMINATOR == 10000
HASH_SEED == 5381
MIN_NAME_LEN == 3
MAX_NAME_LEN == 63
SIGNATURE_LEN == 64

\* ------------------------------------------------------------ value sets
None == <<>>
Some(x) == <<x>>
IsSome(o) == o # <<>>
Unwrap(o) == o[1]

Accounts == {"a1", "a2", "a3"}
Times == 0..MaxTime
NonceInputs == 0..MaxNonce

\* "ac0" and "aar" are valid names with the same name_key; "abc" is a valid
\* name with another key; "ab" is too short.
NameAc0 == <<97, 99, 48>>
NameAar == <<97, 97, 114>>
NameAbc == <<97, 98, 99>>
NameAb == <<97, 98>>
NameInputs == {NameAc0, NameAar, NameAbc, NameAb}
\* The names the registration paths are called with.
RegNames == {NameAc0, NameAar, NameAb}

\* ------------------------------------------------------- name validation
\* The scan of is_valid_name without the check for double hyphens.
ValidFromAllowingDoubleHyphen(bytes, i, prev_hyphen) ==
  \A k \in i..Len(bytes) :
    LET c == bytes[k]
        is_lower == c >= 97 /\ c <= 122
        is_digit == c >= 48 /\ c <= 57
        is_hyphen == c = 45
    IN /\ is_lower \/ is_digit \/ is_hyphen
       /\ ~(is_hyphen /\ (k = 1 \/ k = Len(bytes)))

\* The scan of is_valid_name from byte i on (1-based), entered with the
\* loop variable prev_hyphen: it returns false at the first byte k that
\* fails one of the three tests, true when no byte does. After the first
\* iteration prev_hyphen is the is_hyphen of the byte before.
ValidFrom(bytes, i, prev_hyphen) ==
  \A k \in i..Len(bytes) :
    LET c == bytes[k]
        is_lower == c >= 97 /\ c <= 122
        is_digit == c >= 48 /\ c <= 57
        is_hyphen == c = 45
        prev == IF k = i THEN prev_hyphen ELSE bytes[k - 1] = 45
    IN /\ is_lower \/ is_digit \/ is_hyphen
       /\ ~(is_hyphen /\ (k = 1 \/ k = Len(bytes)))
       /\ ~(is_hyphen /\ prev)

is_valid_name(name) ==
  IF Len(name) < MIN_NAME_LEN \/ Len(name) > MAX_NAME_LEN THEN FALSE
  ELSE ValidFrom(name, 1, FALSE)

\* hash = ((hash << 5) + hash) + byte over the bytes, from HASH_SEED. The
\* names of NameInputs are short enough that the u64 never wraps.
RECURSIVE HashFrom(_, _, _)
HashFrom(bytes, i, hash) ==
  IF i > Len(bytes) THEN hash
  ELSE HashFrom(bytes, i + 1, ((hash * 32) + hash) + bytes[i])

name_key(name) == HashFrom(name, 1, HASH_SEED)

Keys == {name_key(n) : n \in {m \in NameInputs : is_valid_name(m)}}

\* ------------------------------------------------------------ NEAR state
VARIABLES owner, treasury, registration_fee, referrer_bps, names, nonces,
          coin_fees, primary_names, relayers, require_allowlisted_relayer,
          ft_transfers, meta_accepted

\* owner .. require_allowlisted_relayer are the fields of NominalRegistry.
\* ft_transfers holds the ext_ft::ft_transfer promises the contract has
\* scheduled, each pending, ok or failed. meta_accepted counts, per name,
\* the accepted registrations that carried a nonce (history only).
nearVars == <<owner, treasury, registration_fee, referrer_bps, names, nonces,
              coin_fees, primary_names, relayers, require_allowlisted_relayer,
              ft_transfers, meta_accepted>>

\* The contract's fields as one record, the value the methods work on.
S ==
  [owner |-> owner, treasury |-> treasury,
   registration_fee |-> registration_fee, referrer_bps |-> referrer_bps,
   names |-> names, nonces |-> nonces, coin_fees |-> coin_fees,
   primary_names |-> primary_names, relayers |-> relayers,
   require_allowlisted_relayer |-> require_allowlisted_relayer]

\* ------------------------------------------------------- call outcomes
\* A panic (assert!, expect) inside a method: st is the state the method
\* had written up to the panic.
Panic(st, msg) ==
  [ok |-> FALSE, err |-> msg, st |-> st, native |-> <<>>, ft |-> <<>>,
   ret |-> None, logs |-> <<>>]

Done(st, native, ft, ret, logs) ==
  [ok |-> TRUE, err |-> "", st |-> st, native |-> native, ft |-> ft,
   ret |-> ret, logs |-> logs]

\* A variant of Call that keeps the writes of a panicked method.
CallKeepingWrites(before, r) == r

\* A method call as the host runs it: a panicked call's storage writes and
\* promises are discarded, the state is the one before the call.
Call(before, r) ==
  IF r.ok THEN r ELSE [r EXCEPT !.st = before]

\* ------------------------------------------------------ NEAR: internals
\* NominalRegistry::new: the state after construction.
new(init_owner, init_treasury, fee, bps) ==
  IF ~(bps <= 10000) THEN Panic(None, "BPS must be <= 10000")
  ELSE Done([owner |-> init_owner, treasury |-> init_treasury,
             registration_fee |-> fee, referrer_bps |-> bps,
             names |-> [k \in Keys |-> None],
             nonces |-> [k \in Keys |-> None],
             coin_fees |-> [a \in Accounts |-> None],
             primary_names |-> [a \in Accounts |-> None],
             relayers |-> [a \in Accounts |-> None],
             require_allowlisted_relayer |-> FALSE],
            <<>>, <<>>, None, <<>>)

\* Option::unwrap_or
unwrap_or(o, d) == IF IsSome(o) THEN Unwrap(o) ELSE d

\* A variant of ref_cut that rounds the referrer share up.
ref_cut_rounding_up(total, bps, relayer) ==
  IF IsSome(relayer)
  THEN (total * bps + (BPS_DENOMINATOR - 1)) \div BPS_DENOMINATOR
  ELSE 0

\* relayer.as_ref().map(|_| total * bps / 10_000).unwrap_or(0)
ref_cut(total, bps, relayer) ==
  IF IsSome(relayer) THEN (total * bps) \div BPS_DENOMINATOR ELSE 0

\* register_record_and_primary that leaves the record to be written once the
\* payment has settled.
register_record_and_primary_deferred(st, name, rec_owner, timestamp) == st

\* register_record_and_primary that leaves the new record unresolved.
register_record_and_primary_unresolved(st, name, rec_owner, timestamp) ==
  LET record == [owner |-> rec_owner, resolved |-> None,
                 updated_at |-> timestamp]
      st1 == [st EXCEPT !.names[name_key(name)] = Some(record)]
  IN IF st1.primary_names[rec_owner] = None
     THEN [st1 EXCEPT !.primary_names[rec_owner] = Some(name)]
     ELSE st1

\* register_record_and_primary that overwrites the owner's primary name.
register_record_and_primary_always(st, name, rec_owner, timestamp) ==
  LET record == [owner |-> rec_owner, resolved |-> Some(rec_owner),
                 updated_at |-> timestamp]
  IN [st EXCEPT !.names[name_key(name)] = Some(record),
                !.primary_names[rec_owner] = Some(name)]

\* register_record_and_primary: the record, and the primary name if missing.
register_record_and_primary(st, name, rec_owner, timestamp) ==
  LET record == [owner |-> rec_owner, resolved |-> Some(rec_owner),
                 updated_at |-> timestamp]
      st1 == [st EXCEPT !.names[name_key(name)] = Some(record)]
  IN IF st1.primary_names[rec_owner] = None
     THEN [st1 EXCEPT !.primary_names[rec_owner] = Some(name)]
     ELSE st1

\* The log line emit_registered writes.
emit_registered(name, rec_owner, payer, amount) ==
  [event |-> "Registered", name |-> name, owner |-> rec_owner,
   payer |-> payer, amount |-> amount]

\* process_payment: the native transfers it schedules, in order, and its
\* logs. predecessor is env::predecessor_account_id().
process_payment(st, predecessor, actor, name, deposit, meta, relayer) ==
  LET cut == ref_cut(deposit, st.referrer_bps, relayer)
      to_treasury == deposit - cut
      native ==
        IF deposit > 0
        THEN IF meta
             THEN (IF cut > 0
                   THEN <<[to |-> Unwrap(relayer), amount |-> cut]>>
                   ELSE <<>>)
                  \o (IF to_treasury > 0
                      THEN <<[to |-> st.treasury, amount |-> to_treasury]>>
                      ELSE <<>>)
             ELSE <<[to |-> st.treasury, amount |-> deposit]>>
        ELSE <<>>
      fee_paid ==
        IF deposit > 0
        THEN <<[event |-> "FeePaid", name |-> name, payer |-> actor,
                currency |-> "native", total |-> deposit,
                referrer |-> IF meta THEN relayer ELSE None,
                ref_amt |-> IF meta THEN cut ELSE 0,
                treasury_amt |-> IF meta THEN to_treasury ELSE deposit]>>
        ELSE <<>>
  IN Done(st, native, <<>>, None,
          fee_paid \o <<emit_registered(name, predecessor, actor, deposit)>>)

\* A variant of register_internal without the availability check.
register_internal_no_availability(st, predecessor, actor, name, rec_owner, deposit, timestamp, meta, relayer, amount_expected, deadline, nonce) ==
  IF ~is_valid_name(name) THEN Panic(st, "Invalid name format")
  ELSE IF deposit < st.registration_fee THEN Panic(st, "Insufficient fee")
  ELSE process_payment(
         register_record_and_primary(st, name, rec_owner, timestamp),
         predecessor, actor, name, deposit, meta, relayer)

\* register_internal, assertion by assertion. The nonce is written before
\* the deposit and fee assertions run.
register_internal(st, predecessor, actor, name, rec_owner, deposit, timestamp, meta, relayer, amount_expected, deadline, nonce) ==
  IF ~is_valid_name(name) THEN Panic(st, "Invalid name format")
  ELSE IF st.names[name_key(name)] # None
  THEN Panic(st, "Name is already taken")
  ELSE IF meta /\ IsSome(relayer) /\ Unwrap(relayer) # actor
  THEN Panic(st, "Wrong relayer: sender must match relayer")
  ELSE IF meta /\ ~(timestamp <= deadline) THEN Panic(st, "Deadline exceeded")
  ELSE IF meta /\ IsSome(nonce)
          /\ unwrap_or(st.nonces[name_key(name)], 0) # Unwrap(nonce)
  THEN Panic(st, "Invalid nonce")
  ELSE LET st1 == IF meta /\ IsSome(nonce)
                  THEN [st EXCEPT !.nonces[name_key(name)] =
                          Some(unwrap_or(st.nonces[name_key(name)], 0) + 1)]
                  ELSE st
       IN IF meta /\ ~(deposit >= amount_expected)
          THEN Panic(st1, "Insufficient deposit")
          ELSE IF ~(deposit >= st1.registration_fee)
          THEN Panic(st1, "Insufficient fee")
          ELSE process_payment(
                 register_record_and_primary(st1, name, rec_owner, timestamp),
                 predecessor, actor, name, deposit, meta, relayer)

\* --------------------------------------------------- NEAR: public methods
\* register(name), called by sender with deposit attached at time now.
register(st, sender, deposit, now, name) ==
  Call(st, register_internal(st, sender, sender, name, sender, deposit, now,
                             FALSE, None, 0, 0, None))

\* register_with_sig without the allowlist check.
register_with_sig_any_relayer(st, sender, deposit, now, name, rec_owner, relayer, amount, deadline, nonce, signature) ==
  Call(st,
    IF ~(sender = rec_owner \/ sender = relayer)
    THEN Panic(st, "Unauthorized: sender must be owner or relayer")
    ELSE register_internal(st, sender, sender, name, rec_owner, deposit, now,
                           TRUE, Some(relayer), amount, deadline, Some(nonce)))

\* register_with_sig(...). The signature argument is not read.
register_with_sig(st, sender, deposit, now, name, rec_owner, relayer, amount, deadline, nonce, signature) ==
  Call(st,
    IF ~(sender = rec_owner \/ sender = relayer)
    THEN Panic(st, "Unauthorized: sender must be owner or relayer")
    ELSE IF st.require_allowlisted_relayer
            /\ ~unwrap_or(st.relayers[relayer], FALSE)
    THEN Panic(st, "Relayer not allowlisted")
    ELSE register_internal(st, sender, sender, name, rec_owner, deposit, now,
                           TRUE, Some(relayer), amount, deadline, Some(nonce)))

\* ft_on_transfer that leaves the counter alone.
ft_nonce_kept(st, key, nonce) == st

\* The write of the nonce block of ft_on_transfer, after its assertion:
\* the counter under key goes up by one when the message carries a nonce.
ft_nonce_advanced(st, key, nonce) ==
  IF IsSome(nonce)
  THEN [st EXCEPT !.nonces[key] = Some(unwrap_or(st.nonces[key], 0) + 1)]
  ELSE st

\* ft_on_transfer that reports nothing as unused.
ft_unused_none(amount, required) == 0

\* The value ft_on_transfer returns: the part of amount it did not take.
ft_unused(amount, required) == amount - required

\* ft_on_transfer(sender_id, amount, msg), called by token_account at time
\* now. msg is None when it does not parse as FtMsg.
ft_on_transfer(st, token_account, now, sender_id, amount, msg) ==
  Call(st,
    IF msg = None THEN Panic(st, "Invalid FT msg")
    ELSE LET parsed == Unwrap(msg) IN
    IF parsed.action # "register" THEN Panic(st, "Unsupported FT action")
    ELSE IF st.coin_fees[token_account] = None
    THEN Panic(st, "Token not allowed")
    ELSE LET required == Unwrap(st.coin_fees[token_account]) IN
    IF ~(amount >= required) THEN Panic(st, "Insufficient FT amount")
    ELSE IF ~is_valid_name(parsed.name) THEN Panic(st, "Invalid name format")
    ELSE LET key == name_key(parsed.name) IN
    IF st.names[key] # None THEN Panic(st, "Name is already taken")
    ELSE LET rec_owner == unwrap_or(parsed.owner, sender_id) IN
    IF st.require_allowlisted_relayer /\ IsSome(parsed.relayer)
       /\ ~unwrap_or(st.relayers[Unwrap(parsed.relayer)], FALSE)
    THEN Panic(st, "Relayer not allowlisted")
    ELSE IF IsSome(parsed.nonce)
            /\ unwrap_or(st.nonces[key], 0) # Unwrap(parsed.nonce)
    THEN Panic(st, "Invalid nonce")
    ELSE LET st1 == ft_nonce_advanced(st, key, parsed.nonce)
             st2 == register_record_and_primary(st1, parsed.name, rec_owner, now)
             cut == ref_cut(required, st2.referrer_bps, parsed.relayer)
             to_treasury == required - cut
             ft == (IF cut > 0
                    THEN <<[token |-> token_account,
                            receiver |-> Unwrap(parsed.relayer),
                            amount |-> cut, name |-> parsed.name,
                            kind |-> "referrer", status |-> "pending"]>>
                    ELSE <<>>)
                   \o (IF to_treasury > 0
                       THEN <<[token |-> token_account,
                               receiver |-> st2.treasury,
                               amount |-> to_treasury, name |-> parsed.name,
                               kind |-> "treasury", status |-> "pending"]>>
                       ELSE <<>>)
         IN Done(st2, <<>>, ft, Some(ft_unused(amount, required)),
                 <<emit_registered(parsed.name, rec_owner, sender_id, required),
                   [event |-> "FeePaid", name |-> parsed.name,
                    payer |-> sender_id, currency |-> token_account,
                    total |-> required, referrer |-> parsed.relayer,
                    ref_amt |-> cut, treasury_amt |-> to_treasury]>>))

\* assert_owner, as the first statement of every admin method.
assert_owner(st, sender) == sender = st.owner

\* set_coin_fee that keeps the entry of a token it is asked to disable.
set_coin_fee_keeping_entry(st, sender, token, amount, enabled) ==
  Call(st,
    IF ~assert_owner(st, sender)
    THEN Panic(st, "Only the owner can call this method")
    ELSE IF enabled
    THEN Done([st EXCEPT !.coin_fees[token] = Some(amount)],
              <<>>, <<>>, None, <<>>)
    ELSE Done(st, <<>>, <<>>, None, <<>>))

\* set_coin_fee(token, amount, enabled), called by sender.
set_coin_fee(st, sender, token, amount, enabled) ==
  Call(st,
    IF ~assert_owner(st, sender)
    THEN Panic(st, "Only the owner can call this method")
    ELSE IF enabled
    THEN Done([st EXCEPT !.coin_fees[token] = Some(amount)],
              <<>>, <<>>, None, <<>>)
    ELSE Done([st EXCEPT !.coin_fees[token] = None], <<>>, <<>>, None, <<>>))

\* assert_name_exists_and_owned: "" when the record under key exists and
\* sender owns it, else the panic message.
assert_name_exists_and_owned(st, sender, key) ==
  IF st.names[key] = None THEN "Name does not exist"
  ELSE IF Unwrap(st.names[key]).owner # sender
  THEN "Only the owner can manage this name"
  ELSE ""

\* set_resolved without the ownership check.
set_resolved_by_anyone(st, sender, now, name, resolved) ==
  Call(st,
    IF ~is_valid_name(name) THEN Panic(st, "Invalid name format")
    ELSE LET key == name_key(name) IN
    IF st.names[key] = None THEN Panic(st, "Name does not exist")
    ELSE Done([st EXCEPT !.names[key] =
                 Some([Unwrap(@) EXCEPT !.resolved = resolved,
                                        !.updated_at = now])],
              <<>>, <<>>, None, <<>>))

\* set_resolved(name, resolved), called by sender at time now.
set_resolved(st, sender, now, name, resolved) ==
  Call(st,
    IF ~is_valid_name(name) THEN Panic(st, "Invalid name format")
    ELSE LET key == name_key(name) IN
    IF assert_name_exists_and_owned(st, sender, key) # ""
    THEN Panic(st, assert_name_exists_and_owned(st, sender, key))
    ELSE LET record == Unwrap(st.names[key])
             updated_record == [record EXCEPT !.resolved = resolved,
                                              !.updated_at = now]
         IN Done([st EXCEPT !.names[key] = Some(updated_record)],
                 <<>>, <<>>, None,
                 <<[event |-> "ResolvedUpdated", name |-> name,
                    owner |-> updated_record.owner, resolved |-> resolved]>>))

\* transfer_name without the ownership check.
transfer_name_by_anyone(st, sender, now, name, new_owner) ==
  Call(st,
    IF ~is_valid_name(name) THEN Panic(st, "Invalid name format")
    ELSE LET key == name_key(name) IN
    IF st.names[key] = None THEN Panic(st, "Name does not exist")
    ELSE Done([st EXCEPT !.names[key] =
                 Some([Unwrap(@) EXCEPT !.owner = new_owner,
                                        !.updated_at = now])],
              <<>>, <<>>, None, <<>>))

\* transfer_name that releases the name instead of handing it over.
transfer_name_releasing(st, sender, now, name, new_owner) ==
  Call(st,
    IF ~is_valid_name(name) THEN Panic(st, "Invalid name format")
    ELSE LET key == name_key(name) IN
    IF assert_name_exists_and_owned(st, sender, key) # ""
    THEN Panic(st, assert_name_exists_and_owned(st, sender, key))
    ELSE Done([st EXCEPT !.names[key] = None], <<>>, <<>>, None, <<>>))

\* transfer_name without the removal of the old owner's primary name.
transfer_name_keeping_primary(st, sender, now, name, new_owner) ==
  Call(st,
    IF ~is_valid_name(name) THEN Panic(st, "Invalid name format")
    ELSE LET key == name_key(name) IN
    IF assert_name_exists_and_owned(st, sender, key) # ""
    THEN Panic(st, assert_name_exists_and_owned(st, sender, key))
    ELSE LET record == Unwrap(st.names[key])
             updated_record == [record EXCEPT !.owner = new_owner,
                                              !.updated_at = now]
             st1 == [st EXCEPT !.names[key] = Some(updated_record)]
             st3 == IF st1.primary_names[new_owner] = None
                    THEN [st1 EXCEPT !.primary_names[new_owner] = Some(name)]
                    ELSE st1
         IN Done(st3, <<>>, <<>>, None, <<>>))

\* transfer_name(name, new_owner), called by sender at time now.
transfer_name(st, sender, now, name, new_owner) ==
  Call(st,
    IF ~is_valid_name(name) THEN Panic(st, "Invalid name format")
    ELSE LET key == name_key(name) IN
    IF assert_name_exists_and_owned(st, sender, key) # ""
    THEN Panic(st, assert_name_exists_and_owned(st, sender, key))
    ELSE LET record == Unwrap(st.names[key])
             old_owner == record.owner
             updated_record == [record EXCEPT !.owner = new_owner,
                                              !.updated_at = now]
             st1 == [st EXCEPT !.names[key] = Some(updated_record)]
             st2 == IF st1.primary_names[old_owner] = Some(name)
                    THEN [st1 EXCEPT !.primary_names[old_owner] = None]
                    ELSE st1
             st3 == IF st2.primary_names[new_owner] = None
                    THEN [st2 EXCEPT !.primary_names[new_owner] = Some(name)]
                    ELSE st2
         IN Done(st3, <<>>, <<>>, None,
                 <<[event |-> "OwnershipTransferred", name |-> name,
                    old_owner |-> old_owner, new_owner |-> new_owner]>>))

\* set_primary_name that keeps a primary name the caller already has.
set_primary_name_if_none(st, sender, name) ==
  Call(st,
    IF ~is_valid_name(name) THEN Panic(st, "Invalid name format")
    ELSE LET key == name_key(name) IN
    IF assert_name_exists_and_owned(st, sender, key) # ""
    THEN Panic(st, assert_name_exists_and_owned(st, sender, key))
    ELSE Done(IF st.primary_names[sender] = None
              THEN [st EXCEPT !.primary_names[sender] = Some(name)]
              ELSE st,
              <<>>, <<>>, None, <<>>))

\* set_primary_name(name), called by sender.
set_primary_name(st, sender, name) ==
  Call(st,
    IF ~is_valid_name(name) THEN Panic(st, "Invalid name format")
    ELSE LET key == name_key(name) IN
    IF assert_name_exists_and_owned(st, sender, key) # ""
    THEN Panic(st, assert_name_exists_and_owned(st, sender, key))
    ELSE Done([st EXCEPT !.primary_names[Unwrap(st.names[key]).owner] = Some(name)],
              <<>>, <<>>, None,
              <<[event |-> "PrimaryNameSet",
                 owner |-> Unwrap(st.names[key]).owner, name |-> name]>>))

\* An administrative setter without assert_owner.
AdminCallByAnyone(st, sender, changed) ==
  Call(st, Done(changed, <<>>, <<>>, None, <<>>))

\* An administrative setter: it panics unless sender is the contract owner
\* and otherwise leaves the state changed.
AdminCall(st, sender, changed) ==
  Call(st,
    IF ~assert_owner(st, sender)
    THEN Panic(st, "Only the owner can call this method")
    ELSE Done(changed, <<>>, <<>>, None, <<>>))

set_registration_fee(st, sender, amount) ==
  AdminCall(st, sender, [st EXCEPT !.registration_fee = amount])

set_treasury(st, sender, new_treasury) ==
  AdminCall(st, sender, [st EXCEPT !.treasury = new_treasury])

\* set_referrer_bps without the upper limit.
set_referrer_bps_unlimited(st, sender, bps) ==
  Call(st,
    IF ~assert_owner(st, sender)
    THEN Panic(st, "Only the owner can call this method")
    ELSE Done([st EXCEPT !.referrer_bps = bps], <<>>, <<>>, None, <<>>))

set_referrer_bps(st, sender, bps) ==
  Call(st,
    IF ~assert_owner(st, sender)
    THEN Panic(st, "Only the owner can call this method")
    ELSE IF ~(bps <= 10000) THEN Panic(st, "BPS must be <= 10000")
    ELSE Done([st EXCEPT !.referrer_bps = bps], <<>>, <<>>, None, <<>>))

add_relayer(st, sender, relayer) ==
  AdminCall(st, sender, [st EXCEPT !.relayers[relayer] = Some(TRUE)])

remove_relayer(st, sender, relayer) ==
  AdminCall(st, sender, [st EXCEPT !.relayers[relayer] = None])

set_require_allowlisted_relayer(st, sender, enabled) ==
  AdminCall(st, sender, [st EXCEPT !.require_allowlisted_relayer = enabled])

transfer_ownership(st, sender, new_owner) ==
  AdminCall(st, sender, [st EXCEPT !.owner = new_owner])

\* ------------------------------------------------------ Solana state
VARIABLES sol_config, sol_name_records, sol_token_fees, sol_primary_names,
          sol_relayer_entries, sol_meta_accepted

\* sol_config is the RegistryConfig account; the others are the program's
\* derived accounts by seed: NameRecord by name, TokenFeeConfig by mint,
\* PrimaryNameRegistry by identity, RelayerEntry by relayer (None: no such
\* account). sol_meta_accepted counts, per name, the accepted signature
\* registrations (history only; the program stores no replay counter).
solVars == <<sol_config, sol_name_records, sol_token_fees, sol_primary_names,
             sol_relayer_entries, sol_meta_accepted>>

\* ------------------------------------------------------ fee split runs
\* A total and a basis-point rate handed to the registration paths, and
\* the split each path computed for them (None: not computed yet).
VARIABLES fee_total, fee_bps, fee_split

feeVars == <<fee_total, fee_bps, fee_split>>

\* --------------------------------------------------- name validation runs
\* A string handed to the two validators, and what each returned for it
\* (None: not validated yet).
VARIABLES candidate, verdict

nameVars == <<candidate, verdict>>

SolS ==
  [config |-> sol_config, name_records |-> sol_name_records,
   token_fees |-> sol_token_fees, primary_names |-> sol_primary_names,
   relayer_entries |-> sol_relayer_entries]

\* Pubkey::default()
DefaultKey == "default"

\* An instruction as the runtime runs it: one that returns Err leaves every
\* account as it was.
SolCall(before, r) ==
  IF r.ok THEN r ELSE [r EXCEPT !.st = before]

\* initialize(registration_fee, referrer_bps), signed by admin.
sol_initialize(admin, init_treasury, fee, bps) ==
  IF ~(bps <= 10000) THEN Panic(None, "InvalidReferrerBps")
  ELSE Done([config |-> [admin |-> admin, pending_admin |-> None,
                         treasury |-> init_treasury,
                         registration_fee |-> fee, referrer_bps |-> bps,
                         require_allowlisted_relayer |-> FALSE],
             name_records |-> [n \in NameInputs |-> None],
             token_fees |-> [m \in Accounts |-> None],
             primary_names |-> [a \in Accounts |-> None],
             relayer_entries |-> [a \in Accounts |-> None]],
            <<>>, <<>>, None, <<>>)

\* The per-character loop of validate_name from character i on: the error
\* it returns at the first character that fails a test, or "" when it runs
\* to the end.
SolCharsFrom(name, i) ==
  LET valid(c) == (c >= 97 /\ c <= 122) \/ (c >= 48 /\ c <= 57) \/ c = 45
      misplaced(k) == name[k] = 45 /\ ~(k # 1 /\ k # Len(name))
      failing == {k \in i..Len(name) : ~valid(name[k]) \/ misplaced(k)}
      first == CHOOSE k \in failing : \A j \in failing : k <= j
  IN IF failing = {} THEN ""
     ELSE IF ~valid(name[first]) THEN "InvalidCharacter"
     ELSE "InvalidHyphenPlacement"

\* validate_name without the length check.
validate_name_any_length(name) ==
  IF SolCharsFrom(name, 1) # "" THEN SolCharsFrom(name, 1)
  ELSE IF \E i \in 1..(Len(name) - 1) : name[i] = 45 /\ name[i + 1] = 45
  THEN "ConsecutiveHyphens"
  ELSE ""

\* validate_name: "" for Ok(()), else the error code.
validate_name(name) ==
  IF ~(Len(name) >= MIN_NAME_LEN /\ Len(name) <= MAX_NAME_LEN)
  THEN "InvalidNameLength"
  ELSE IF SolCharsFrom(name, 1) # "" THEN SolCharsFrom(name, 1)
  ELSE IF \E i \in 1..(Len(name) - 1) : name[i] = 45 /\ name[i + 1] = 45
  THEN "ConsecutiveHyphens"
  ELSE ""

\* (fee as u128).checked_mul(bps as u128).unwrap().checked_div(10_000).unwrap() as u64
sol_referrer_amount(fee, bps) == (fee * bps) \div BPS_DENOMINATOR

\* The NameRecord an instruction writes.
SolRecord(name, rec_owner, now) ==
  [name |-> name, owner |-> rec_owner, resolved |-> rec_owner,
   updated_at |-> now]

\* The primary-name account after "set as primary if the owner has none":
\* the account is created by init_if_needed, with owner Pubkey::default().
SolSetPrimaryIfNone(st, rec_owner, name) ==
  LET acct == unwrap_or(st.primary_names[rec_owner],
                        [owner |-> DefaultKey, name |-> <<>>])
  IN IF acct.owner = DefaultKey
     THEN [st EXCEPT !.primary_names[rec_owner] =
                       Some([owner |-> rec_owner, name |-> name])]
     ELSE [st EXCEPT !.primary_names[rec_owner] = Some(acct)]

\* add_relayer(relayer), signed by signer, for the entry account derived
\* from relayer_account.
sol_add_relayer(st, signer, relayer_account, relayer) ==
  SolCall(st,
    IF st.config.admin # signer THEN Panic(st, "Unauthorized")
    ELSE IF st.relayer_entries[relayer_account] # None
    THEN Panic(st, "account already in use")
    ELSE Done([st EXCEPT !.relayer_entries[relayer_account] =
                 Some([relayer |-> relayer])],
              <<>>, <<>>, None, <<>>))

\* set_token_fee(amount, enabled) for mint, signed by signer.
sol_set_token_fee(st, signer, mint, amount, enabled) ==
  SolCall(st,
    IF st.config.admin # signer THEN Panic(st, "Unauthorized")
    ELSE Done([st EXCEPT !.token_fees[mint] =
                 Some([mint |-> mint, amount |-> amount, enabled |-> enabled])],
              <<>>, <<>>, None, <<>>))

\* set_referrer_bps(bps), signed by signer. The constraint of SetReferrerBps
\* on config is checked before the instruction body.
sol_set_referrer_bps(st, signer, bps) ==
  SolCall(st,
    IF st.config.admin # signer THEN Panic(st, "Unauthorized")
    ELSE IF ~(bps <= 10000) THEN Panic(st, "InvalidReferrerBps")
    ELSE Done([st EXCEPT !.config.referrer_bps = bps],
              <<>>, <<>>, None, <<>>))

\* transfer_admin(new_admin), signed by signer. The constraint of
\* TransferAdmin on config is checked before the instruction body.
sol_transfer_admin(st, signer, new_admin) ==
  SolCall(st,
    IF st.config.admin # signer THEN Panic(st, "Unauthorized")
    ELSE Done([st EXCEPT !.config.pending_admin = Some(new_admin)],
              <<>>, <<>>, None, <<>>))

\* accept_admin without the comparison of the signer with pending_admin.
sol_accept_admin_by_anyone(st, new_admin) ==
  SolCall(st,
    IF st.config.pending_admin = None
    THEN Panic(st, "called Option::unwrap() on a None value")
    ELSE Done([st EXCEPT !.config.admin = new_admin,
                         !.config.pending_admin = None],
              <<>>, <<>>, None, <<>>))

\* accept_admin, signed by new_admin. AcceptAdmin puts no constraint on
\* the signer; pending_admin.unwrap() panics on None.
sol_accept_admin(st, new_admin) ==
  SolCall(st,
    IF st.config.pending_admin = None
    THEN Panic(st, "called Option::unwrap() on a None value")
    ELSE IF ~(new_admin = Unwrap(st.config.pending_admin))
    THEN Panic(st, "Unauthorized")
    ELSE Done([st EXCEPT !.config.admin = Unwrap(st.config.pending_admin),
                         !.config.pending_admin = None],
              <<>>, <<>>, None, <<>>))

\* register_name_with_signature(params, signature), signed by relayer, who
\* holds lamports. The accounts of
\* RegisterNameWithSignature are validated first, in their order.
register_name_with_signature(st, relayer, lamports, now, params, signature) ==
  SolCall(st,
    IF st.name_records[params.name] # None
    THEN Panic(st, "account already in use")
    ELSE IF st.relayer_entries[relayer] = None
    THEN Panic(st, "AccountNotInitialized")
    ELSE IF validate_name(params.name) # ""
    THEN Panic(st, validate_name(params.name))
    ELSE IF ~(now <= params.deadline) THEN Panic(st, "DeadlineExpired")
    ELSE IF ~(relayer = params.relayer) THEN Panic(st, "Unauthorized")
    ELSE IF ~(Unwrap(st.relayer_entries[relayer]).relayer = relayer)
    THEN Panic(st, "RelayerNotAllowed")
    ELSE IF ~(signature.len = SIGNATURE_LEN) THEN Panic(st, "InvalidSignature")
    ELSE LET st1 == [st EXCEPT !.name_records[params.name] =
                       Some(SolRecord(params.name, params.owner, now))]
             fee == st1.config.registration_fee
             referrer_amount == sol_referrer_amount(fee, st1.config.referrer_bps)
             treasury_amount == fee - referrer_amount
         IN IF ~(params.currency = None) THEN Panic(st1, "TokenNotEnabled")
            ELSE IF ~(lamports >= fee)
            THEN Panic(st1, "InsufficientTokenBalance")
            ELSE Done(SolSetPrimaryIfNone(st1, params.owner, params.name),
                      <<[from |-> relayer, to |-> st1.config.treasury,
                         amount |-> treasury_amount]>>,
                      <<>>, None,
                      <<[event |-> "FeePaid", name |-> params.name,
                         payer |-> relayer, currency |-> "SOL",
                         total |-> fee, referrer |-> Some(relayer),
                         ref_amt |-> referrer_amount,
                         treasury_amt |-> treasury_amount],
                        [event |-> "NameRegistered", name |-> params.name,
                         owner |-> params.owner, resolved |-> params.owner]>>))

\* register_name_with_signature_token(params, signature) for mint, signed
\* by relayer, whose token account holds balance.
register_name_with_signature_token(st, relayer, mint, balance, now, params, signature) ==
  SolCall(st,
    IF st.token_fees[mint] = None THEN Panic(st, "AccountNotInitialized")
    ELSE IF st.name_records[params.name] # None
    THEN Panic(st, "account already in use")
    ELSE IF st.relayer_entries[relayer] = None
    THEN Panic(st, "AccountNotInitialized")
    ELSE IF validate_name(params.name) # ""
    THEN Panic(st, validate_name(params.name))
    ELSE IF ~(signature.len = SIGNATURE_LEN) THEN Panic(st, "InvalidSignature")
    ELSE IF ~(Unwrap(st.relayer_entries[relayer]).relayer = relayer)
    THEN Panic(st, "RelayerNotAllowed")
    ELSE LET token_fee == Unwrap(st.token_fees[mint]) IN
    IF ~token_fee.enabled THEN Panic(st, "TokenNotEnabled")
    ELSE IF ~(token_fee.amount = params.amount)
    THEN Panic(st, "TokenFeeMismatch")
    ELSE LET st1 == [st EXCEPT !.name_records[params.name] =
                       Some(SolRecord(params.name, params.owner, now))]
             referrer_amount ==
               sol_referrer_amount(token_fee.amount, st1.config.referrer_bps)
             treasury_amount == token_fee.amount - referrer_amount
         IN IF ~(balance >= treasury_amount)
            THEN Panic(st1, "token transfer: insufficient funds")
            ELSE Done(SolSetPrimaryIfNone(st1, params.owner, params.name),
                      <<>>,
                      <<[token |-> mint, from |-> relayer,
                         receiver |-> "treasury_token_account",
                         amount |-> treasury_amount]>>,
                      None,
                      <<[event |-> "NameRegistered", name |-> params.name,
                         owner |-> params.owner, resolved |-> params.owner],
                        [event |-> "FeePaid", name |-> params.name,
                         payer |-> relayer, currency |-> mint,
                         total |-> token_fee.amount,
                         referrer |-> Some(relayer),
                         ref_amt |-> referrer_amount,
                         treasury_amt |-> treasury_amount]>>))

\* register_name(name), signed by user, who holds lamports. The accounts
\* of RegisterName are validated first.
register_name(st, user, lamports, now, name) ==
  SolCall(st,
    IF st.name_records[name] # None THEN Panic(st, "account already in use")
    ELSE IF validate_name(name) # "" THEN Panic(st, validate_name(name))
    ELSE LET st1 == [st EXCEPT !.name_records[name] =
                       Some(SolRecord(name, user, now))]
             fee == st1.config.registration_fee
         IN IF ~(lamports >= fee)
            THEN Panic(st1, "system transfer: insufficient lamports")
            ELSE Done(SolSetPrimaryIfNone(st1, user, name),
                      <<[from |-> user, to |-> st1.config.treasury,
                         amount |-> fee]>>,
                      <<>>, None,
                      <<[event |-> "NameRegistered", name |-> name,
                         owner |-> user, resolved |-> user],
                        [event |-> "FeePaid", name |-> name, payer |-> user,
                         currency |-> "SOL", total |-> fee,
                         referrer |-> None, ref_amt |-> 0,
                         treasury_amt |-> fee]>>))

\* A variant of register_name_with_token that does not look at the enabled
\* flag of the fee entry.
register_name_with_token_ignoring_enabled(st, user, mint, balance, now, name) ==
  IF st.token_fees[mint] = None THEN Panic(st, "AccountNotInitialized")
  ELSE IF st.name_records[name] # None THEN Panic(st, "account already in use")
  ELSE IF validate_name(name) # "" THEN Panic(st, validate_name(name))
  ELSE IF ~(balance >= Unwrap(st.token_fees[mint]).amount)
  THEN Panic(st, "token transfer: insufficient funds")
  ELSE Done(SolSetPrimaryIfNone(
              [st EXCEPT !.name_records[name] = Some(SolRecord(name, user, now))],
              user, name),
            <<>>,
            <<[token |-> mint, from |-> user,
               receiver |-> "treasury_token_account",
               amount |-> Unwrap(st.token_fees[mint]).amount]>>,
            None, <<>>)

\* register_name_with_token(name) for mint, signed by user, whose token
\* account holds balance. The accounts of RegisterNameWithToken are
\* validated first, in their order.
register_name_with_token(st, user, mint, balance, now, name) ==
  SolCall(st,
    IF st.token_fees[mint] = None THEN Panic(st, "AccountNotInitialized")
    ELSE IF st.name_records[name] # None
    THEN Panic(st, "account already in use")
    ELSE IF validate_name(name) # "" THEN Panic(st, validate_name(name))
    ELSE LET token_fee == Unwrap(st.token_fees[mint]) IN
    IF ~token_fee.enabled THEN Panic(st, "TokenNotEnabled")
    ELSE LET st1 == [st EXCEPT !.name_records[name] =
                       Some(SolRecord(name, user, now))]
         IN IF ~(balance >= token_fee.amount)
            THEN Panic(st1, "token transfer: insufficient funds")
            ELSE Done(SolSetPrimaryIfNone(st1, user, name),
                      <<>>,
                      <<[token |-> mint, from |-> user,
                         receiver |-> "treasury_token_account",
                         amount |-> token_fee.amount]>>,
                      None,
                      <<[event |-> "NameRegistered", name |-> name,
                         owner |-> user, resolved |-> user],
                        [event |-> "FeePaid", name |-> name, payer |-> user,
                         currency |-> mint, total |-> token_fee.amount,
                         referrer |-> None, ref_amt |-> 0,
                         treasury_amt |-> token_fee.amount]>>))

\* ------------------------------------------------------- NEAR: inputs
FeeValues == {1000}
BpsInputs == {500, 10001}
Deposits == {0, 1000, 1001}
AmountsExpected == {0, 1001}
Deadlines == {0}
\* The token contract whose fee the administrator sets, and its fee.
Tokens == {"a3"}
CoinFeeValues == {1001}
FtAmounts == {1000, 1001, 1002}
\* Declared owners and relayers of a meta-transaction.
MetaOwners == {"a1", "a2"}
MetaRelayers == {"a3"}
\* A signature argument: its length in bytes and the account whose key it
\* verifies under for the request it comes with ("nobody": under none).
Signatures == {[len |-> SIGNATURE_LEN, signer |-> "a1"], [len |-> 0, signer |-> "nobody"]}
\* The msg argument of ft_on_transfer, parsed (None: not valid JSON).
FtMsgs ==
  {None, Some([action |-> "transfer", name |-> NameAbc, owner |-> None,
               relayer |-> None, deadline |-> None, nonce |-> None])}
  \cup {Some([action |-> "register", name |-> n, owner |-> o, relayer |-> r,
              deadline |-> None, nonce |-> k]) :
          n \in RegNames, o \in {None, Some("a1")},
          r \in {None, Some("a2")},
          k \in {None} \cup {Some(x) : x \in NonceInputs}}

\* ------------------------------------------------------- NEAR: actions
\* The state after a call with outcome r; counted says whether the call is
\* a registration of name that carried a nonce.
Apply(r, name, counted) ==
  /\ owner' = r.st.owner
  /\ treasury' = r.st.treasury
  /\ registration_fee' = r.st.registration_fee
  /\ referrer_bps' = r.st.referrer_bps
  /\ names' = r.st.names
  /\ nonces' = r.st.nonces
  /\ coin_fees' = r.st.coin_fees
  /\ primary_names' = r.st.primary_names
  /\ relayers' = r.st.relayers
  /\ require_allowlisted_relayer' = r.st.require_allowlisted_relayer
  /\ ft_transfers' = ft_transfers \cup {r.ft[i] : i \in 1..Len(r.ft)}
  /\ meta_accepted' = IF r.ok /\ counted
                      THEN [meta_accepted EXCEPT ![name] = @ + 1]
                      ELSE meta_accepted
  /\ UNCHANGED <<solVars, feeVars, nameVars>>

\* The calls of each registration method that the actions draw from.
RegisterCalls ==
  [sender : {"a1", "a2"}, deposit : Deposits, now : Times, name : RegNames]

RegisterWithSigCalls ==
  [sender : Accounts, deposit : Deposits, now : Times, name : RegNames,
   owner : MetaOwners, relayer : MetaRelayers, amount : AmountsExpected,
   deadline : Deadlines, nonce : NonceInputs, signature : Signatures]

FtOnTransferCalls ==
  [token_account : {"a1", "a3"}, now : Times, sender_id : {"a2"},
   amount : FtAmounts, msg : FtMsgs]

RegisterOn(st, c) == register(st, c.sender, c.deposit, c.now, c.name)

RegisterWithSigOn(st, c) ==
  register_with_sig(st, c.sender, c.deposit, c.now, c.name, c.owner,
                    c.relayer, c.amount, c.deadline, c.nonce, c.signature)

FtOnTransferOn(st, c) ==
  ft_on_transfer(st, c.token_account, c.now, c.sender_id, c.amount, c.msg)

Register ==
  \E c \in RegisterCalls : Apply(RegisterOn(S, c), c.name, FALSE)

RegisterWithSig ==
  \E c \in RegisterWithSigCalls : Apply(RegisterWithSigOn(S, c), c.name, TRUE)

FtOnTransfer ==
  \E c \in FtOnTransferCalls :
    Apply(FtOnTransferOn(S, c),
          IF c.msg = None THEN NameAb ELSE Unwrap(c.msg).name,
          c.msg # None /\ IsSome(Unwrap(c.msg).nonce))

\* The token contract reports the outcome of one scheduled ft_transfer. The
\* registry attaches no callback to the promise: none of its fields change.
FtTransferResolves ==
  \E t \in ft_transfers, outcome \in {"ok", "failed"} :
    /\ t.status = "pending"
    /\ ft_transfers' = (ft_transfers \ {t}) \cup {[t EXCEPT !.status = outcome]}
    /\ UNCHANGED <<owner, treasury, registration_fee, referrer_bps, names,
                   nonces, coin_fees, primary_names, relayers,
                   require_allowlisted_relayer, meta_accepted>>
    /\ UNCHANGED <<solVars, feeVars, nameVars>>

SetCoinFee ==
  \E sender \in {"a1", "a2"}, token \in Tokens, amount \in CoinFeeValues, enabled \in BOOLEAN :
    Apply(set_coin_fee(S, sender, token, amount, enabled), NameAb, FALSE)

\* ----------------------------------------------------- Solana: inputs
SolNames == {NameAc0, NameAbc, NameAb}
SolRelayerSigners == {"a2", "a3"}
SolLamports == {0, 1000}
SolMints == {"a3"}
SolTokenAmounts == {1000, 1001}
SolTokenBalances == {0, 1001}
\* RegisterWithSigParams
SolParams ==
  [name : SolNames, owner : MetaOwners, relayer : SolRelayerSigners,
   currency : {None, Some("a3")}, amount : SolTokenAmounts,
   deadline : {0}, nonce : NonceInputs]

\* The calls of the signature registrations that the actions draw from.
SolSigCalls ==
  [relayer : SolRelayerSigners, lamports : SolLamports, now : Times,
   params : SolParams, signature : Signatures]

SolSigOn(st, c) ==
  register_name_with_signature(st, c.relayer, c.lamports, c.now, c.params,
                               c.signature)

SolSigTokenCalls ==
  [relayer : SolRelayerSigners, mint : SolMints, balance : SolTokenBalances,
   now : Times, params : SolParams, signature : Signatures]

SolSigTokenOn(st, c) ==
  register_name_with_signature_token(st, c.relayer, c.mint, c.balance,
                                     c.now, c.params, c.signature)

\* ---------------------------------------------------- Solana: actions
\* The accounts after an instruction with outcome r; counted says whether
\* it is a signature registration of name.
SolApply(r, name, counted) ==
  /\ sol_config' = r.st.config
  /\ sol_name_records' = r.st.name_records
  /\ sol_token_fees' = r.st.token_fees
  /\ sol_primary_names' = r.st.primary_names
  /\ sol_relayer_entries' = r.st.relayer_entries
  /\ sol_meta_accepted' = IF r.ok /\ counted
                          THEN [sol_meta_accepted EXCEPT ![name] = @ + 1]
                          ELSE sol_meta_accepted
  /\ UNCHANGED <<nearVars, feeVars, nameVars>>

SolAddRelayer ==
  \E signer \in {"a1", "a2"}, relayer_account \in SolRelayerSigners, relayer \in MetaRelayers :
    SolApply(sol_add_relayer(SolS, signer, relayer_account, relayer), NameAb, FALSE)

SolSetTokenFee ==
  \E signer \in {"a1", "a2"}, mint \in SolMints, amount \in {1001}, enabled \in BOOLEAN :
    SolApply(sol_set_token_fee(SolS, signer, mint, amount, enabled), NameAb, FALSE)

SolRegisterNameWithSignature ==
  \E c \in SolSigCalls : SolApply(SolSigOn(SolS, c), c.params.name, TRUE)

SolRegisterNameWithSignatureToken ==
  \E c \in SolSigTokenCalls :
    SolApply(SolSigTokenOn(SolS, c), c.params.name, TRUE)

\* The calls of the direct registrations that the actions draw from.
SolUsers == {"a1", "a2"}

SolTokenCalls ==
  [user : SolUsers, mint : SolMints, balance : SolTokenBalances, now : Times,
   name : {NameAc0, NameAb}]

SolTokenOn(st, c) ==
  register_name_with_token(st, c.user, c.mint, c.balance, c.now, c.name)

SolRegisterNameWithToken ==
  \E c \in SolTokenCalls : SolApply(SolTokenOn(SolS, c), c.name, FALSE)

\* ------------------------------------------------------ initial states
\* The state after new(owner, treasury, registration_fee, referrer_bps).
NearInit ==
  \E fee \in FeeValues, bps \in BpsInputs :
    LET r == new("a1", "a2", fee, bps) IN
    /\ r.ok
    /\ owner = r.st.owner
    /\ treasury = r.st.treasury
    /\ registration_fee = r.st.registration_fee
    /\ referrer_bps = r.st.referrer_bps
    /\ names = r.st.names
    /\ nonces = r.st.nonces
    /\ coin_fees = r.st.coin_fees
    /\ primary_names = r.st.primary_names
    /\ relayers = r.st.relayers
    /\ require_allowlisted_relayer = r.st.require_allowlisted_relayer
    /\ ft_transfers = {}
    /\ meta_accepted = [n \in NameInputs |-> 0]

\* The accounts after initialize(registration_fee, referrer_bps).
SolInit ==
  \E fee \in FeeValues, bps \in BpsInputs :
    LET r == sol_initialize("a1", "a2", fee, bps) IN
    /\ r.ok
    /\ sol_config = r.st.config
    /\ sol_name_records = r.st.name_records
    /\ sol_token_fees = r.st.token_fees
    /\ sol_primary_names = r.st.primary_names
    /\ sol_relayer_entries = r.st.relayer_entries
    /\ sol_meta_accepted = [n \in NameInputs |-> 0]

FeeIdle ==
  /\ fee_total = 0
  /\ fee_bps = 0
  /\ fee_split = None

\* No validation run is in progress.
NameIdle == candidate = <<>> /\ verdict = None

Init == NearInit /\ SolInit /\ FeeIdle /\ NameIdle

vars == <<nearVars, solVars, feeVars, nameVars>>

\* The registration paths of the NEAR contract.
Next ==
  \/ Register
  \/ RegisterWithSig
  \/ FtOnTransfer
  \/ FtTransferResolves
  \/ SetCoinFee

Spec == Init /\ [][Next]_vars

\* The signature registrations of the Solana program.
NextSol ==
  \/ SolAddRelayer
  \/ SolSetTokenFee
  \/ SolRegisterNameWithSignature
  \/ SolRegisterNameWithSignatureToken

SpecSol == Init /\ [][NextSol]_vars

\* ------------------------------------------------- fee split: inputs
MaxTotal == 12
Totals == (0..MaxTotal) \cup {1000, 1001, 9999, 10001, 200000}
FeeBps == {0, 1, 300, 333, 500, 5000, 9999, 10000}

\* The referrer and treasury amounts a registration reports in FeePaid
\* (nothing is paid and nothing reported when the total is zero).
SplitOf(r) ==
  LET paid == {i \in 1..Len(r.logs) : r.logs[i].event = "FeePaid"} IN
  IF r.ok /\ paid # {}
  THEN LET e == r.logs[CHOOSE i \in paid : TRUE]
       IN [ok |-> TRUE, ref |-> e.ref_amt, treasury |-> e.treasury_amt]
  ELSE [ok |-> r.ok, ref |-> 0, treasury |-> 0]

\* register_with_sig on a registry constructed with fee total and rate bps,
\* the relayer attaching exactly the fee.
NearNativeSplit(total, bps) ==
  LET st == new("a1", "a2", total, bps).st
  IN SplitOf(register_with_sig(st, "a3", total, 0, NameAbc, "a1", "a3",
                               total, 0, 0,
                               [len |-> SIGNATURE_LEN, signer |-> "a1"]))

\* ft_on_transfer with a relayer, on a registry constructed with rate bps
\* whose owner set the token's fee to total.
NearFtSplit(total, bps) ==
  LET st0 == new("a1", "a2", 0, bps).st
      st == set_coin_fee(st0, "a1", "a3", total, TRUE).st
  IN SplitOf(ft_on_transfer(st, "a3", 0, "a2", total,
               Some([action |-> "register", name |-> NameAbc,
                     owner |-> None, relayer |-> Some("a2"),
                     deadline |-> None, nonce |-> None])))

\* The request of the Solana split runs.
SplitParams(currency, amount) ==
  [name |-> NameAbc, owner |-> "a1", relayer |-> "a3", currency |-> currency,
   amount |-> amount, deadline |-> 0, nonce |-> 0]

\* register_name_with_signature on a program initialized with fee total
\* and rate bps, by an allowlisted relayer.
SolNativeSplit(total, bps) ==
  LET st0 == sol_initialize("a1", "a2", total, bps).st
      st == sol_add_relayer(st0, "a1", "a3", "a3").st
  IN SplitOf(register_name_with_signature(st, "a3", total, 0,
               SplitParams(None, 0),
               [len |-> SIGNATURE_LEN, signer |-> "a1"]))

\* register_name_with_signature_token on a program initialized with rate
\* bps whose admin set the mint's fee to total.
SolTokenSplit(total, bps) ==
  LET st0 == sol_initialize("a1", "a2", 0, bps).st
      st1 == sol_add_relayer(st0, "a1", "a3", "a3").st
      st == sol_set_token_fee(st1, "a1", "a3", total, TRUE).st
  IN SplitOf(register_name_with_signature_token(st, "a3", "a3", total, 0,
               SplitParams(Some("a3"), total),
               [len |-> SIGNATURE_LEN, signer |-> "a1"]))

\* ------------------------------------------------- fee split: actions
ComputeSplit ==
  /\ fee_split = None
  /\ fee_split' = Some([near_native |-> NearNativeSplit(fee_total, fee_bps),
                        near_ft |-> NearFtSplit(fee_total, fee_bps),
                        sol_native |-> SolNativeSplit(fee_total, fee_bps),
                        sol_token |-> SolTokenSplit(fee_total, fee_bps)])
  /\ UNCHANGED <<fee_total, fee_bps, nearVars, solVars, nameVars>>

InitFee ==
  /\ NearInit
  /\ SolInit
  /\ NameIdle
  /\ fee_total \in Totals
  /\ fee_bps \in FeeBps
  /\ fee_split = None

NextFee == ComputeSplit

\* The fee split of every registration path, over totals and rates.
SpecFee == InitFee /\ [][NextFee]_vars

\* ============================================================ claims
\* C9: for a total t and a referrer rate of b basis points, every
\* registration path computes the referrer share r as floor(t*b/10000) and
\* the treasury share s as t - r, so that r + s = t and r <= t.
C9_FeeSplitExact ==
  fee_split # None =>
    \A path \in DOMAIN Unwrap(fee_split) :
      LET p == Unwrap(fee_split)[path]
          r == p.ref
          s == p.treasury
      IN p.ok => /\ r * 10000 <= fee_total * fee_bps
                 /\ fee_total * fee_bps < (r + 1) * 10000
                 /\ s = fee_total - r
                 /\ r + s = fee_total
                 /\ 0 <= r /\ r <= fee_total

\* Every path registered and split a total that the rate does not divide
\* evenly into a positive referrer share.
C9_Witness ==
  /\ fee_split # None
  /\ (fee_total * fee_bps) % 10000 # 0
  /\ \A path \in DOMAIN Unwrap(fee_split) :
       Unwrap(fee_split)[path].ok /\ Unwrap(fee_split)[path].ref > 0

\* ------------------------------------------------- NEAR registrations
\* get_record(n) of the current state (no Record for a name that is not
\* valid: nothing is stored under such a name).
StoredRecord(n) == IF is_valid_name(n) THEN names[name_key(n)] ELSE None

\* The stored nonce of n (absent counter: 0).
StoredNonce(n) ==
  IF is_valid_name(n) THEN unwrap_or(nonces[name_key(n)], 0) ELSE 0

\* The name an ft_on_transfer call asks to register (None: it asks for no
\* registration).
FtRegisteredName(c) ==
  IF c.msg # None /\ Unwrap(c.msg).action = "register"
  THEN Some(Unwrap(c.msg).name)
  ELSE None

\* The sum of the amounts of a sequence of scheduled transfers.
RECURSIVE SumAmounts(_)
SumAmounts(transfers) ==
  IF transfers = <<>> THEN 0
  ELSE Head(transfers).amount + SumAmounts(Tail(transfers))

\* C1 (as the code has it): once a Record exists for n, every registration
\* attempt for n on any of the three paths fails and leaves the whole
\* state, the Record included, unchanged; the failure is 'Name is already
\* taken' unless a check placed before the availability check rejects the
\* call first (caller neither owner nor relayer, relayer not allowlisted,
\* token without fee entry, amount below the token fee).
C1_TakenNameStaysTaken ==
  /\ \A c \in RegisterCalls :
       StoredRecord(c.name) # None =>
         LET r == RegisterOn(S, c)
         IN ~r.ok /\ r.st = S /\ r.err = "Name is already taken"
  /\ \A c \in RegisterWithSigCalls :
       StoredRecord(c.name) # None =>
         LET r == RegisterWithSigOn(S, c)
         IN /\ ~r.ok /\ r.st = S
            /\ IF ~(c.sender = c.owner \/ c.sender = c.relayer)
               THEN r.err = "Unauthorized: sender must be owner or relayer"
               ELSE IF require_allowlisted_relayer
                       /\ relayers[c.relayer] # Some(TRUE)
               THEN r.err = "Relayer not allowlisted"
               ELSE r.err = "Name is already taken"
  /\ \A c \in FtOnTransferCalls :
       (FtRegisteredName(c) # None
          /\ StoredRecord(Unwrap(FtRegisteredName(c))) # None) =>
         LET r == FtOnTransferOn(S, c)
         IN /\ ~r.ok /\ r.st = S
            /\ IF coin_fees[c.token_account] = None
               THEN r.err = "Token not allowed"
               ELSE IF c.amount < Unwrap(coin_fees[c.token_account])
               THEN r.err = "Insufficient FT amount"
               ELSE r.err = "Name is already taken"

\* "ac0" is registered; a direct attempt for it fails with 'Name is
\* already taken' and an attempt through a token without fee entry fails
\* with 'Token not allowed'.
C1_Witness ==
  /\ StoredRecord(NameAc0) # None
  /\ RegisterOn(S, [sender |-> "a2", deposit |-> 1000, now |-> 0,
                    name |-> NameAc0]).err = "Name is already taken"
  /\ \E c \in FtOnTransferCalls :
       /\ FtRegisteredName(c) = Some(NameAc0)
       /\ FtOnTransferOn(S, c).err = "Token not allowed"

\* C1 as stated: every later registration attempt for a registered name
\* fails with 'Name is already taken'.
C1_AlwaysNameTaken ==
  /\ \A c \in RegisterCalls :
       StoredRecord(c.name) # None =>
         RegisterOn(S, c).err = "Name is already taken"
  /\ \A c \in RegisterWithSigCalls :
       StoredRecord(c.name) # None =>
         RegisterWithSigOn(S, c).err = "Name is already taken"
  /\ \A c \in FtOnTransferCalls :
       (FtRegisteredName(c) # None
          /\ StoredRecord(Unwrap(FtRegisteredName(c))) # None) =>
         FtOnTransferOn(S, c).err = "Name is already taken"

\* C2: when a fungible-token transfer issued while registering n through
\* ft_on_transfer has failed, no Record exists for n.
C2_FailedTransferLeavesNoRecord ==
  \A t \in ft_transfers : t.status = "failed" => StoredRecord(t.name) = None

\* C3: no Record exists for a name whose settlement transfer is still
\* pending or has failed.
C3_RecordOnlyAfterSettlement ==
  \A t \in ft_transfers :
    t.status \in {"pending", "failed"} => StoredRecord(t.name) = None

\* C4: register_with_sig is accepted only with a well-formed signature
\* that verifies under a key of the declared owner.
C4_AcceptedOnlyIfOwnerSigned ==
  \A c \in RegisterWithSigCalls :
    RegisterWithSigOn(S, c).ok =>
      c.signature.len = SIGNATURE_LEN /\ c.signature.signer = c.owner

\* C5: after k accepted meta-transactions for n the stored nonce of n is k.
C5_NonceCountsAcceptances ==
  \A n \in RegNames : is_valid_name(n) => StoredNonce(n) = meta_accepted[n]

\* The submissions of the meta-transaction of call c by the same relayer:
\* same name, owner, relayer, nonce, expected amount, deadline and
\* signature, with any deposit at any time.
Resubmissions(c) ==
  {d \in RegisterWithSigCalls :
     [d EXCEPT !.deposit = c.deposit, !.now = c.now] = c}

ManagementOutcomes ==
  {set_resolved(S, a, t, n, v) :
     a \in Accounts, t \in Times, n \in NameInputs, v \in {None, Some("a3")}}
  \cup {transfer_name(S, a, t, n, b) :
          a \in Accounts, t \in Times, n \in NameInputs, b \in Accounts}
  \cup {set_primary_name(S, a, n) : a \in Accounts, n \in NameInputs}

AdminOutcomes ==
  {set_registration_fee(S, a, v) : a \in Accounts, v \in {0, 1001}}
  \cup {set_coin_fee(S, a, k, v, e) :
          a \in Accounts, k \in Tokens, v \in CoinFeeValues, e \in BOOLEAN}
  \cup {set_treasury(S, a, b) : a \in Accounts, b \in Accounts}
  \cup {set_referrer_bps(S, a, v) : a \in Accounts, v \in {0, 10001}}
  \cup {add_relayer(S, a, b) : a \in Accounts, b \in Accounts}
  \cup {remove_relayer(S, a, b) : a \in Accounts, b \in Accounts}
  \cup {set_require_allowlisted_relayer(S, a, e) :
          a \in Accounts, e \in BOOLEAN}
  \cup {transfer_ownership(S, a, b) : a \in Accounts, b \in Accounts}

\* The deposit that satisfies both deposit checks of call c.
EnoughFor(c) ==
  IF c.amount > registration_fee THEN c.amount ELSE registration_fee

\* C8: every NEAR registry operation that fails leaves the names, the
\* primary names, the nonces and the configuration as they were; and a
\* register_with_sig that fails 'Insufficient deposit' or 'Insufficient
\* fee' after passing the nonce check leaves the nonce where it was, so
\* that the same request with a sufficient deposit is then accepted.
C8_FailureChangesNothing ==
  /\ \A c \in RegisterCalls : LET r == RegisterOn(S, c) IN ~r.ok => r.st = S
  /\ \A c \in FtOnTransferCalls :
       LET r == FtOnTransferOn(S, c) IN ~r.ok => r.st = S
  /\ \A r \in ManagementOutcomes \cup AdminOutcomes : ~r.ok => r.st = S
  /\ \A c \in RegisterWithSigCalls :
       LET r == RegisterWithSigOn(S, c) IN
       /\ ~r.ok => r.st = S
       /\ r.err \in {"Insufficient deposit", "Insufficient fee"} =>
            /\ r.st.nonces = nonces
            /\ c.nonce = StoredNonce(c.name)
            /\ RegisterWithSigOn(r.st, [c EXCEPT !.deposit = EnoughFor(c)]).ok

\* A token fee has been set, "ac0" is free, and a register_with_sig for it
\* with the matching nonce fails 'Insufficient deposit' while another
\* fails 'Insufficient fee'.
C8_Witness ==
  /\ coin_fees["a3"] # None
  /\ StoredRecord(NameAc0) = None
  /\ \E c \in RegisterWithSigCalls :
       /\ c.name = NameAc0 /\ c.nonce = StoredNonce(NameAc0)
       /\ RegisterWithSigOn(S, c).err = "Insufficient deposit"
  /\ \E c \in RegisterWithSigCalls :
       /\ c.name = NameAc0 /\ c.nonce = StoredNonce(NameAc0)
       /\ RegisterWithSigOn(S, c).err = "Insufficient fee"

\* C10: a successful registration on a NEAR native path sends to the
\* treasury and the referrer amounts that sum to registration_fee.
C10_NativePathsTransferTheFee ==
  /\ \A c \in RegisterCalls :
       LET r == RegisterOn(S, c)
       IN r.ok => SumAmounts(r.native) = registration_fee
  /\ \A c \in RegisterWithSigCalls :
       LET r == RegisterWithSigOn(S, c)
       IN r.ok => SumAmounts(r.native) = registration_fee

\* ----------------------------------------------- Solana registrations
\* C6: the Solana signature registrations accept a request only if
\* params.nonce equals the number of requests accepted for params.name so
\* far, which is what a replay counter advanced once per success holds.
C6_SolanaNonceMatchesCounter ==
  /\ \A c \in SolSigCalls :
       SolSigOn(SolS, c).ok => c.params.nonce = sol_meta_accepted[c.params.name]
  /\ \A c \in SolSigTokenCalls :
       SolSigTokenOn(SolS, c).ok =>
         c.params.nonce = sol_meta_accepted[c.params.name]

\* The total amount a sequence of scheduled native transfers sends to an
\* account.
RECURSIVE PaidTo(_, _)
PaidTo(transfers, account) ==
  IF transfers = <<>> THEN 0
  ELSE (IF Head(transfers).to = account THEN Head(transfers).amount ELSE 0)
       + PaidTo(Tail(transfers), account)

\* The allowlist lets the relayer of call c through.
RelayerAdmitted(c) ==
  ~require_allowlisted_relayer \/ relayers[c.relayer] = Some(TRUE)

\* What C11 expects of the outcome r of the meta-transaction c.
MetaRegistrationEffects(c, r) ==
  /\ r.ok
  /\ r.st.names[name_key(c.name)] # None
  /\ Unwrap(r.st.names[name_key(c.name)]).owner = c.owner
  /\ Unwrap(r.st.names[name_key(c.name)]).resolved = Some(c.owner)
  /\ r.st.nonces[name_key(c.name)] = Some(1)
  /\ primary_names[c.owner] = None =>
       r.st.primary_names[c.owner] = Some(c.name)
  /\ c.relayer # c.owner =>
       r.st.primary_names[c.relayer] = primary_names[c.relayer]
  /\ PaidTo(r.native, c.relayer)
       = (registration_fee * referrer_bps) \div 10000
  /\ PaidTo(r.native, treasury)
       = registration_fee - (registration_fee * referrer_bps) \div 10000

\* The meta-transactions C11 is about: a free valid name, submitted by the
\* declared relayer with nonce 0, an unexpired deadline and exactly the
\* registration fee attached.
MetaRegistrationOfFreeName(c) ==
  /\ is_valid_name(c.name)
  /\ StoredRecord(c.name) = None
  /\ c.sender = c.relayer
  /\ c.nonce = 0
  /\ c.now <= c.deadline
  /\ c.deposit = registration_fee

\* C11 (as the code has it): a meta-transaction registration of a free
\* valid name by relayer R for owner O, with nonce 0, an unexpired deadline
\* and exactly the native fee attached, whose declared amount does not
\* exceed what is attached and whose relayer the allowlist admits, creates
\* Record{owner: O, resolved: O}, sets the nonce to 1, sets O's primary
\* name when O had none, leaves R's primary name alone, and pays
\* floor(fee*bps/10000) to R and the remainder to the treasury.
C11_MetaRegistrationSucceeds ==
  \A c \in RegisterWithSigCalls :
    (MetaRegistrationOfFreeName(c) /\ c.amount <= c.deposit
       /\ RelayerAdmitted(c)) =>
      MetaRegistrationEffects(c, RegisterWithSigOn(S, c))

\* The meta-transaction for "ac0" by relayer a3 for owner a1 has been
\* accepted: a1 owns the Record and has "ac0" as primary name, the nonce
\* is 1 and a3 has no primary name.
C11_Witness ==
  /\ meta_accepted[NameAc0] = 1
  /\ ft_transfers = {}
  /\ StoredRecord(NameAc0) # None
  /\ Unwrap(StoredRecord(NameAc0)).owner = "a1"
  /\ Unwrap(StoredRecord(NameAc0)).resolved = Some("a1")
  /\ StoredNonce(NameAc0) = 1
  /\ primary_names["a1"] = Some(NameAc0)
  /\ primary_names["a3"] = None

\* C11 as stated: every such meta-transaction has these effects, whatever
\* amount it declares.
C11_EveryMetaRegistrationSucceeds ==
  \A c \in RegisterWithSigCalls :
    MetaRegistrationOfFreeName(c) =>
      MetaRegistrationEffects(c, RegisterWithSigOn(S, c))

\* -------------------------------------------- external-asset payments
\* The registrations paid with an external asset on both registries, and
\* the setters of the assets' fees.
NextAssets ==
  \/ SetCoinFee
  \/ FtOnTransfer
  \/ SolSetTokenFee
  \/ SolRegisterNameWithToken

SpecAssets == Init /\ [][NextAssets]_vars

\* The mint has no enabled fee entry.
SolNoEnabledFee(mint) ==
  sol_token_fees[mint] = None \/ ~Unwrap(sol_token_fees[mint]).enabled

\* C12 (as the code has it): a registration paid with an external asset
\* that has no enabled fee entry is rejected, issues no transfer and
\* changes no state. On NEAR the error is 'Token not allowed'. On Solana it
\* is TokenNotEnabled only when a disabled fee entry exists and the name is
\* valid and free: with no fee entry account the instruction fails account
\* validation, and a taken or invalid name is reported first.
C12_UnacceptedAssetRejected ==
  /\ \A c \in FtOnTransferCalls :
       (FtRegisteredName(c) # None /\ coin_fees[c.token_account] = None) =>
         LET r == FtOnTransferOn(S, c)
         IN /\ ~r.ok /\ r.err = "Token not allowed"
            /\ r.ft = <<>> /\ r.native = <<>>
            /\ r.st = S
  /\ \A c \in SolTokenCalls :
       SolNoEnabledFee(c.mint) =>
         LET r == SolTokenOn(SolS, c)
         IN /\ ~r.ok
            /\ r.ft = <<>> /\ r.native = <<>>
            /\ r.st = SolS
            /\ r.err = IF sol_token_fees[c.mint] = None
                       THEN "AccountNotInitialized"
                       ELSE IF sol_name_records[c.name] # None
                       THEN "account already in use"
                       ELSE IF validate_name(c.name) # ""
                       THEN validate_name(c.name)
                       ELSE "TokenNotEnabled"

\* On NEAR a name was registered through token a3, whose fee entry has
\* since been removed, and a further registration through a3 fails with
\* 'Token not allowed'; on Solana the mint's fee entry is disabled and a
\* registration of the free name "ac0" fails with TokenNotEnabled.
C12_Witness ==
  /\ ft_transfers # {}
  /\ coin_fees["a3"] = None
  /\ \E c \in FtOnTransferCalls :
       /\ c.token_account = "a3" /\ FtRegisteredName(c) # None
       /\ FtOnTransferOn(S, c).err = "Token not allowed"
  /\ sol_token_fees["a3"] # None
  /\ \E c \in SolTokenCalls :
       /\ c.name = NameAc0 /\ SolTokenOn(SolS, c).err = "TokenNotEnabled"

\* C12 as stated: the rejection is 'Token not allowed' on NEAR and
\* TokenNotEnabled on Solana.
C12_RejectedAsNotEnabled ==
  /\ \A c \in FtOnTransferCalls :
       (FtRegisteredName(c) # None /\ coin_fees[c.token_account] = None) =>
         LET r == FtOnTransferOn(S, c)
         IN ~r.ok /\ r.err = "Token not allowed" /\ r.st = S
  /\ \A c \in SolTokenCalls :
       SolNoEnabledFee(c.mint) =>
         LET r == SolTokenOn(SolS, c)
         IN ~r.ok /\ r.err = "TokenNotEnabled" /\ r.st = SolS

\* C13: a NEAR registration that supplies less than the configured fee of
\* its currency (deposit < registration_fee on register and
\* register_with_sig, amount < the token's fee on ft_on_transfer) is
\* rejected and creates no Record, sets no primary name and advances no
\* nonce.
C13_UnderpaidRegistrationRejected ==
  /\ \A c \in RegisterCalls :
       c.deposit < registration_fee =>
         LET r == RegisterOn(S, c)
         IN ~r.ok /\ r.st.names = names
            /\ r.st.primary_names = primary_names /\ r.st.nonces = nonces
  /\ \A c \in RegisterWithSigCalls :
       c.deposit < registration_fee =>
         LET r == RegisterWithSigOn(S, c)
         IN ~r.ok /\ r.st.names = names
            /\ r.st.primary_names = primary_names /\ r.st.nonces = nonces
  /\ \A c \in FtOnTransferCalls :
       (coin_fees[c.token_account] # None
          /\ c.amount < Unwrap(coin_fees[c.token_account])) =>
         LET r == FtOnTransferOn(S, c)
         IN ~r.ok /\ r.st.names = names
            /\ r.st.primary_names = primary_names /\ r.st.nonces = nonces

\* With "ac0" free and a fee set for token a3, a direct registration
\* without deposit fails 'Insufficient fee', a meta-transaction without
\* deposit that passed the nonce check fails 'Insufficient fee', and a
\* token registration below the token's fee fails 'Insufficient FT amount'.
C13_Witness ==
  /\ StoredRecord(NameAc0) = None
  /\ coin_fees["a3"] # None
  /\ RegisterOn(S, [sender |-> "a1", deposit |-> 0, now |-> 0,
                    name |-> NameAc0]).err = "Insufficient fee"
  /\ \E c \in RegisterWithSigCalls :
       /\ c.name = NameAc0 /\ c.deposit < registration_fee
       /\ RegisterWithSigOn(S, c).err = "Insufficient fee"
  /\ \E c \in FtOnTransferCalls :
       /\ FtRegisteredName(c) = Some(NameAc0)
       /\ FtOnTransferOn(S, c).err = "Insufficient FT amount"

\* ------------------------------------------------ NEAR: name management
\* The calls the name-management actions draw from. The names have two
\* distinct storage keys ("ac0" and "abc"); "ab" is not a valid name.
ManagedNames == {NameAc0, NameAbc, NameAb}

NameHolders == {"a1", "a2"}

NameRegisterCalls ==
  [sender : NameHolders, deposit : {1000}, now : Times, name : ManagedNames]

TransferNameCalls ==
  [sender : NameHolders, now : Times, name : ManagedNames,
   new_owner : NameHolders]

SetResolvedCalls ==
  [sender : NameHolders, now : Times, name : ManagedNames,
   resolved : {None, Some("a3")}]

SetPrimaryNameCalls == [sender : NameHolders, name : ManagedNames]

TransferNameOn(st, c) ==
  transfer_name(st, c.sender, c.now, c.name, c.new_owner)

SetResolvedOn(st, c) == set_resolved(st, c.sender, c.now, c.name, c.resolved)

SetPrimaryNameOn(st, c) == set_primary_name(st, c.sender, c.name)

RegisterName ==
  \E c \in NameRegisterCalls : Apply(RegisterOn(S, c), c.name, FALSE)

TransferName ==
  \E c \in TransferNameCalls : Apply(TransferNameOn(S, c), c.name, FALSE)

SetResolved ==
  \E c \in SetResolvedCalls : Apply(SetResolvedOn(S, c), c.name, FALSE)

SetPrimaryName ==
  \E c \in SetPrimaryNameCalls : Apply(SetPrimaryNameOn(S, c), c.name, FALSE)

\* Direct registration and the management of registered names.
NextNames ==
  \/ RegisterName
  \/ TransferName
  \/ SetResolved
  \/ SetPrimaryName
  \/ SetCoinFee

SpecNames == Init /\ [][NextNames]_vars

\* The primary name of account a after a call with outcome r.
PrimaryAfter(r, a) == r.st.primary_names[a]

\* C14: a successful transfer_name(n, new_owner) makes new_owner the
\* record's owner. When new_owner is another account, the caller's primary
\* name is removed if it was n and is otherwise kept, and new_owner's
\* primary name becomes n if it had none and is otherwise kept. When
\* new_owner is the caller, the caller's primary name is n afterwards if it
\* was n or absent before, and is otherwise kept.
C14_TransferNameEffects ==
  \A c \in TransferNameCalls :
    LET r == TransferNameOn(S, c) IN
    r.ok =>
      /\ Unwrap(r.st.names[name_key(c.name)]).owner = c.new_owner
      /\ c.new_owner # c.sender =>
           /\ PrimaryAfter(r, c.sender) =
                IF primary_names[c.sender] = Some(c.name) THEN None
                ELSE primary_names[c.sender]
           /\ PrimaryAfter(r, c.new_owner) =
                IF primary_names[c.new_owner] = None THEN Some(c.name)
                ELSE primary_names[c.new_owner]
      /\ c.new_owner = c.sender =>
           PrimaryAfter(r, c.sender) =
             IF primary_names[c.sender] \in {None, Some(c.name)}
             THEN Some(c.name)
             ELSE primary_names[c.sender]

\* Some owner can transfer its primary name to itself and to an account
\* that already has a primary name.
C14_Witness ==
  \E c, d \in TransferNameCalls :
    /\ TransferNameOn(S, c).ok /\ TransferNameOn(S, d).ok
    /\ c.name = d.name /\ c.sender = d.sender
    /\ primary_names[c.sender] = Some(c.name)
    /\ c.new_owner = c.sender
    /\ d.new_owner # d.sender /\ primary_names[d.new_owner] # None

\* C14 as stated: after any successful transfer_name, the self-transfer
\* included, the caller's primary name is absent if it was n, and
\* new_owner's primary name is n only if it had none before.
C14_PrimaryClearedOnEveryTransfer ==
  \A c \in TransferNameCalls :
    LET r == TransferNameOn(S, c) IN
    r.ok =>
      /\ Unwrap(r.st.names[name_key(c.name)]).owner = c.new_owner
      /\ primary_names[c.sender] = Some(c.name) =>
           PrimaryAfter(r, c.sender) = None
      /\ PrimaryAfter(r, c.new_owner) =
           IF primary_names[c.new_owner] = None THEN Some(c.name)
           ELSE primary_names[c.new_owner]

\* ---------------------------------------------- Solana: name management
\* transfer_name(name, new_owner), signed by signer. TransferName requires
\* the name record account to exist and to be owned by the signer.
sol_transfer_name(st, signer, now, name, new_owner) ==
  SolCall(st,
    IF st.name_records[name] = None THEN Panic(st, "AccountNotInitialized")
    ELSE IF Unwrap(st.name_records[name]).owner # signer
    THEN Panic(st, "Unauthorized")
    ELSE Done([st EXCEPT !.name_records[name] =
                 Some([Unwrap(@) EXCEPT !.owner = new_owner,
                                        !.updated_at = now])],
              <<>>, <<>>, None,
              <<[event |-> "NameTransferred", name |-> name,
                 old_owner |-> signer, new_owner |-> new_owner]>>))

\* set_resolved_address(name, new_resolved), signed by signer.
set_resolved_address(st, signer, now, name, new_resolved) ==
  SolCall(st,
    IF st.name_records[name] = None THEN Panic(st, "AccountNotInitialized")
    ELSE IF Unwrap(st.name_records[name]).owner # signer
    THEN Panic(st, "Unauthorized")
    ELSE Done([st EXCEPT !.name_records[name] =
                 Some([Unwrap(@) EXCEPT !.resolved = new_resolved,
                                        !.updated_at = now])],
              <<>>, <<>>, None,
              <<[event |-> "ResolvedUpdated", name |-> name,
                 owner |-> signer, new_resolved |-> new_resolved]>>))

\* set_primary_name(name) of the Solana program, signed by user.
sol_set_primary_name(st, user, name) ==
  SolCall(st,
    IF st.name_records[name] = None THEN Panic(st, "AccountNotInitialized")
    ELSE IF Unwrap(st.name_records[name]).owner # user
    THEN Panic(st, "Unauthorized")
    ELSE Done([st EXCEPT !.primary_names[user] =
                 Some([owner |-> user, name |-> name])],
              <<>>, <<>>, None,
              <<[event |-> "PrimaryNameSet", owner |-> user,
                 name |-> name]>>))

SolRegisterCalls ==
  [user : SolUsers, lamports : SolLamports, now : Times, name : SolNames]

SolTransferCalls ==
  [signer : SolUsers, now : Times, name : SolNames, new_owner : SolUsers]

SolSetResolvedCalls ==
  [signer : SolUsers, now : Times, name : SolNames, new_resolved : {"a3"}]

SolSetPrimaryCalls == [user : SolUsers, name : SolNames]

SolRegisterOn(st, c) == register_name(st, c.user, c.lamports, c.now, c.name)

SolTransferOn(st, c) ==
  sol_transfer_name(st, c.signer, c.now, c.name, c.new_owner)

SolSetResolvedOn(st, c) ==
  set_resolved_address(st, c.signer, c.now, c.name, c.new_resolved)

SolSetPrimaryOn(st, c) == sol_set_primary_name(st, c.user, c.name)

SolRegisterName ==
  \E c \in SolRegisterCalls : SolApply(SolRegisterOn(SolS, c), c.name, FALSE)

SolTransferName ==
  \E c \in SolTransferCalls : SolApply(SolTransferOn(SolS, c), c.name, FALSE)

SolSetResolvedAddress ==
  \E c \in SolSetResolvedCalls :
    SolApply(SolSetResolvedOn(SolS, c), c.name, FALSE)

SolSetPrimaryName ==
  \E c \in SolSetPrimaryCalls :
    SolApply(SolSetPrimaryOn(SolS, c), c.name, FALSE)

\* Direct registration and the management of registered names on Solana.
NextSolNames ==
  \/ SolRegisterName
  \/ SolTransferName
  \/ SolSetResolvedAddress
  \/ SolSetPrimaryName

SpecSolNames == Init /\ [][NextSolNames]_vars

\* The name in the primary-name account of account a in st (None: the
\* account does not exist or was never filled).
SolPrimaryOf(st, a) ==
  IF st.primary_names[a] = None THEN None
  ELSE IF Unwrap(st.primary_names[a]).owner = DefaultKey THEN None
  ELSE Some(Unwrap(st.primary_names[a]).name)

\* C15: a successful transfer_name of the Solana program clears the old
\* owner's primary name when it was the transferred name, and makes the
\* name new_owner's primary name when new_owner has none.
C15_SolanaTransferUpdatesPrimary ==
  \A c \in SolTransferCalls :
    LET r == SolTransferOn(SolS, c) IN
    (r.ok /\ c.new_owner # c.signer) =>
      /\ SolPrimaryOf(SolS, c.signer) = Some(c.name) =>
           SolPrimaryOf(r.st, c.signer) = None
      /\ SolPrimaryOf(SolS, c.new_owner) = None =>
           SolPrimaryOf(r.st, c.new_owner) = Some(c.name)

\* ------------------------------------- registrations on both chains
\* Direct registrations of names with distinct storage keys on NEAR and on
\* Solana, and the NEAR owner's choice of accepted tokens.
NextRegistrations ==
  \/ RegisterName
  \/ SetCoinFee
  \/ SolRegisterName

SpecRegistrations == Init /\ [][NextRegistrations]_vars

\* Meta-transactions and token payments that register the managed names:
\* the relayer submits its own call, the deposit is the fee.
MetaRegistrationCalls ==
  [sender : {"a2", "a3"}, deposit : {1000}, now : Times, name : ManagedNames,
   owner : MetaOwners, relayer : {"a2", "a3"}, amount : {0},
   deadline : Deadlines, nonce : {0}, signature : Signatures]

FtRegistrationMsgs ==
  {Some([action |-> "register", name |-> n, owner |-> o, relayer |-> None,
         deadline |-> None, nonce |-> None]) :
     n \in ManagedNames, o \in {None, Some("a1"), Some("a2")}}

FtRegistrationCalls ==
  [token_account : Tokens, now : Times, sender_id : {"a2", "a3"},
   amount : CoinFeeValues, msg : FtRegistrationMsgs]

\* The owner of the record an ft_on_transfer call c asks for.
FtRecordOwner(c) == unwrap_or(Unwrap(c.msg).owner, c.sender_id)

\* After a NEAR call with outcome r, the primary name of rec_owner is name
\* when it had none, and every other primary name is as before.
PrimarySetIfNone(r, rec_owner, name) ==
  \A a \in Accounts :
    PrimaryAfter(r, a) =
      IF a = rec_owner /\ primary_names[a] = None THEN Some(name)
      ELSE primary_names[a]

\* The same for an instruction of the Solana program.
SolPrimarySetIfNone(r, rec_owner, name) ==
  \A a \in Accounts :
    SolPrimaryOf(r.st, a) =
      IF a = rec_owner /\ SolPrimaryOf(SolS, a) = None THEN Some(name)
      ELSE SolPrimaryOf(SolS, a)

\* C16: a successful registration, on any path, makes the registered name
\* the record owner's primary name exactly when that owner had none, and
\* leaves every other primary name (the relayer's and the payer's
\* included) unchanged.
C16_PrimarySetOnlyIfNone ==
  /\ \A c \in NameRegisterCalls :
       RegisterOn(S, c).ok =>
         PrimarySetIfNone(RegisterOn(S, c), c.sender, c.name)
  /\ \A c \in MetaRegistrationCalls :
       RegisterWithSigOn(S, c).ok =>
         PrimarySetIfNone(RegisterWithSigOn(S, c), c.owner, c.name)
  /\ \A c \in FtRegistrationCalls :
       FtOnTransferOn(S, c).ok =>
         PrimarySetIfNone(FtOnTransferOn(S, c), FtRecordOwner(c),
                          Unwrap(c.msg).name)
  /\ \A c \in SolRegisterCalls :
       SolRegisterOn(SolS, c).ok =>
         SolPrimarySetIfNone(SolRegisterOn(SolS, c), c.user, c.name)

\* On both chains some account that has a primary name can register a
\* second name, and on NEAR a relayer that has a primary name and a token
\* payer can register a name for an owner that has a primary name and for
\* one that has none.
C16_Witness ==
  /\ \E c \in NameRegisterCalls :
       primary_names[c.sender] # None /\ RegisterOn(S, c).ok
  /\ \E c \in MetaRegistrationCalls :
       /\ primary_names[c.owner] # None /\ c.relayer # c.owner
       /\ RegisterWithSigOn(S, c).ok
  /\ \E c \in MetaRegistrationCalls :
       /\ primary_names[c.owner] = None /\ primary_names[c.relayer] # None
       /\ RegisterWithSigOn(S, c).ok
  /\ \E c \in FtRegistrationCalls :
       /\ primary_names[FtRecordOwner(c)] # None
       /\ FtRecordOwner(c) # c.sender_id
       /\ FtOnTransferOn(S, c).ok
  /\ \E c \in FtRegistrationCalls :
       primary_names[FtRecordOwner(c)] = None /\ FtOnTransferOn(S, c).ok
  /\ \E c \in SolRegisterCalls :
       SolPrimaryOf(SolS, c.user) # None /\ SolRegisterOn(SolS, c).ok

\* The record a successful NEAR registration of name created belongs to
\* rec_owner and resolves to rec_owner.
CreatedResolvingToOwner(r, name, rec_owner) ==
  /\ r.st.names[name_key(name)] # None
  /\ Unwrap(r.st.names[name_key(name)]).owner = rec_owner
  /\ Unwrap(r.st.names[name_key(name)]).resolved = Some(rec_owner)

\* Every record of the current state is still there after a call with
\* outcome r, with the resolved field it had.
ResolvedKept(r) ==
  \A k \in Keys :
    names[k] # None =>
      /\ r.st.names[k] # None
      /\ Unwrap(r.st.names[k]).resolved = Unwrap(names[k]).resolved

\* The outcomes, on the current state, of the calls other than set_resolved.
OutcomesBesidesSetResolved ==
  {RegisterOn(S, c) : c \in NameRegisterCalls}
  \cup {RegisterWithSigOn(S, c) : c \in MetaRegistrationCalls}
  \cup {FtOnTransferOn(S, c) : c \in FtRegistrationCalls}
  \cup {TransferNameOn(S, c) : c \in TransferNameCalls}
  \cup {SetPrimaryNameOn(S, c) : c \in SetPrimaryNameCalls}
  \cup AdminOutcomes

\* C17: a record created by register belongs and resolves to the caller,
\* one created by register_with_sig to the declared owner, one created by
\* ft_on_transfer to msg.owner, or to sender_id when msg.owner is omitted;
\* and no call other than set_resolved changes the resolved field of an
\* existing record.
C17_ResolvedIsOwnerAtCreation ==
  /\ \A c \in NameRegisterCalls :
       RegisterOn(S, c).ok =>
         CreatedResolvingToOwner(RegisterOn(S, c), c.name, c.sender)
  /\ \A c \in MetaRegistrationCalls :
       RegisterWithSigOn(S, c).ok =>
         CreatedResolvingToOwner(RegisterWithSigOn(S, c), c.name, c.owner)
  /\ \A c \in FtRegistrationCalls :
       FtOnTransferOn(S, c).ok =>
         CreatedResolvingToOwner(FtOnTransferOn(S, c), Unwrap(c.msg).name,
                                 FtRecordOwner(c))
  /\ \A r \in OutcomesBesidesSetResolved : ResolvedKept(r)

\* A record whose resolved field was changed after creation can be
\* transferred, while another name can be registered by its owner, by a
\* relayer for a declared owner, and by token payers with and without
\* msg.owner.
C17_Witness ==
  /\ \E c \in TransferNameCalls :
       /\ StoredRecord(c.name) # None
       /\ Unwrap(StoredRecord(c.name)).resolved # Some(c.sender)
       /\ c.new_owner # c.sender
       /\ TransferNameOn(S, c).ok
  /\ \E c \in NameRegisterCalls : RegisterOn(S, c).ok
  /\ \E c \in MetaRegistrationCalls :
       c.owner # c.sender /\ RegisterWithSigOn(S, c).ok
  /\ \E c, d \in FtRegistrationCalls :
       /\ Unwrap(c.msg).owner = None /\ FtOnTransferOn(S, c).ok
       /\ Unwrap(d.msg).owner # None /\ FtRecordOwner(d) # d.sender_id
       /\ FtOnTransferOn(S, d).ok

\* set_resolved calls by every account, for every name.
SetResolvedInputs ==
  [sender : Accounts, now : Times, name : NameInputs,
   resolved : {None, Some("a3")}]

\* The caller of c owns the record stored for c.name.
OwnsRecord(c) ==
  StoredRecord(c.name) # None /\ Unwrap(StoredRecord(c.name)).owner = c.sender

\* C18: set_resolved(n, r) succeeds only when a record is stored for n and
\* the caller owns it. On success that record keeps its owner and has the
\* new resolved value, and nothing else in the state changes (the other
\* records, the primary names and the nonces included) except the
\* record's updated_at. When no record is stored for n or the caller is
\* not its owner, the call fails and changes nothing.
C18_SetResolvedFrame ==
  \A c \in SetResolvedInputs :
    LET r == SetResolvedOn(S, c) IN
    /\ r.ok => OwnsRecord(c)
    /\ r.ok =>
         /\ Unwrap(r.st.names[name_key(c.name)]).owner = c.sender
         /\ Unwrap(r.st.names[name_key(c.name)]).resolved = c.resolved
         /\ [r.st EXCEPT !.names[name_key(c.name)] = StoredRecord(c.name)] = S
         /\ r.native = <<>> /\ r.ft = <<>>
    /\ ~OwnsRecord(c) => ~r.ok /\ r.st = S

\* With two records stored and a primary name set, the owner of one record
\* can change its resolved value, and another account is refused.
C18_Witness ==
  /\ \A k \in Keys : names[k] # None
  /\ \E a \in Accounts : primary_names[a] # None
  /\ \E c, d \in SetResolvedInputs :
       /\ c.name = d.name /\ StoredRecord(c.name) # None
       /\ c.resolved # Unwrap(StoredRecord(c.name)).resolved
       /\ c.now # Unwrap(StoredRecord(c.name)).updated_at
       /\ SetResolvedOn(S, c).ok
       /\ ~SetResolvedOn(S, d).ok

\* -------------------------------------- primary names on both chains
\* Direct registrations and the owners' choice of a primary name, on NEAR
\* and on Solana.
NextPrimary ==
  \/ RegisterName
  \/ SetPrimaryName
  \/ SolRegisterName
  \/ SolSetPrimaryName

SpecPrimary == Init /\ [][NextPrimary]_vars

\* set_primary_name calls by every account, for every name, on both chains.
SetPrimaryNameInputs == [sender : Accounts, name : NameInputs]

\* The caller of c owns the Solana name record of c.name.
SolOwnsRecord(c) ==
  /\ sol_name_records[c.name] # None
  /\ Unwrap(sol_name_records[c.name]).owner = c.sender

\* C19: on both chains set_primary_name(n) fails, changing nothing, unless
\* the caller owns the record of n; when it succeeds the caller's primary
\* name is n whatever it was before, and no record and no other account's
\* primary name changes.
C19_SetPrimaryNameEffects ==
  \A c \in SetPrimaryNameInputs :
    LET r == SetPrimaryNameOn(S, c)
        q == sol_set_primary_name(SolS, c.sender, c.name)
    IN /\ ~OwnsRecord(c) => ~r.ok /\ r.st = S
       /\ r.ok => r.st = [S EXCEPT !.primary_names[c.sender] = Some(c.name)]
       /\ ~SolOwnsRecord(c) => ~q.ok /\ q.st = SolS
       /\ q.ok =>
            /\ [q.st EXCEPT !.primary_names = sol_primary_names] = SolS
            /\ \A a \in Accounts :
                 SolPrimaryOf(q.st, a) =
                   IF a = c.sender THEN Some(c.name) ELSE SolPrimaryOf(SolS, a)

\* On each chain an owner of two names replaces its primary name by the
\* other one, and a call for that name by another account is refused.
C19_Witness ==
  /\ \E c, d \in SetPrimaryNameInputs :
       /\ primary_names[c.sender] \notin {None, Some(c.name)}
       /\ SetPrimaryNameOn(S, c).ok
       /\ d.name = c.name /\ ~SetPrimaryNameOn(S, d).ok
  /\ \E c, d \in SetPrimaryNameInputs :
       /\ SolPrimaryOf(SolS, c.sender) \notin {None, Some(c.name)}
       /\ sol_set_primary_name(SolS, c.sender, c.name).ok
       /\ d.name = c.name /\ ~sol_set_primary_name(SolS, d.sender, d.name).ok

\* ------------------------------------------------ NEAR: administration
AdminSenders == {"a1", "a2"}

AdminFees == {0, 1001}

AdminBps == {0, 10001}

SetRegistrationFee ==
  \E sender \in AdminSenders, amount \in AdminFees :
    Apply(set_registration_fee(S, sender, amount), NameAb, FALSE)

SetTreasury ==
  \E sender \in AdminSenders, new_treasury \in {"a3"} :
    Apply(set_treasury(S, sender, new_treasury), NameAb, FALSE)

SetReferrerBps ==
  \E sender \in AdminSenders, bps \in AdminBps :
    Apply(set_referrer_bps(S, sender, bps), NameAb, FALSE)

AddRelayer ==
  \E sender \in AdminSenders, relayer \in MetaRelayers :
    Apply(add_relayer(S, sender, relayer), NameAb, FALSE)

RemoveRelayer ==
  \E sender \in AdminSenders, relayer \in MetaRelayers :
    Apply(remove_relayer(S, sender, relayer), NameAb, FALSE)

SetRequireAllowlistedRelayer ==
  \E sender \in AdminSenders, enabled \in BOOLEAN :
    Apply(set_require_allowlisted_relayer(S, sender, enabled), NameAb, FALSE)

TransferOwnership ==
  \E sender \in AdminSenders, new_owner \in AdminSenders :
    Apply(transfer_ownership(S, sender, new_owner), NameAb, FALSE)

\* The administrative setters of the NEAR registry.
NextAdmin ==
  \/ SetRegistrationFee
  \/ SetCoinFee
  \/ SetTreasury
  \/ SetReferrerBps
  \/ AddRelayer
  \/ RemoveRelayer
  \/ SetRequireAllowlistedRelayer
  \/ TransferOwnership

SpecAdmin == Init /\ [][NextAdmin]_vars

\* The outcomes of the administrative setters called by account a on st.
AdminCallsOn(st, a) ==
  {set_registration_fee(st, a, v) : v \in AdminFees}
  \cup {set_coin_fee(st, a, k, v, e) :
          k \in Tokens, v \in CoinFeeValues, e \in BOOLEAN}
  \cup {set_treasury(st, a, b) : b \in Accounts}
  \cup {set_referrer_bps(st, a, v) : v \in AdminBps}
  \cup {add_relayer(st, a, b) : b \in Accounts}
  \cup {remove_relayer(st, a, b) : b \in Accounts}
  \cup {set_require_allowlisted_relayer(st, a, e) : e \in BOOLEAN}
  \cup {transfer_ownership(st, a, b) : b \in Accounts}

\* The panic message of assert_owner.
OwnerOnly == "Only the owner can call this method"

\* Every setter refuses the call, with the owner check's message, and
\* leaves st as it is.
RejectedByAll(st, a) ==
  \A r \in AdminCallsOn(st, a) : ~r.ok /\ r.err = OwnerOnly /\ r.st = st

\* No setter refuses a on the owner check: each call succeeds, except a
\* set_referrer_bps above 10000, which fails on its own range check.
AcceptedByAll(st, a) ==
  \A r \in AdminCallsOn(st, a) : r.ok \/ r.err = "BPS must be <= 10000"

\* C20: every administrative setter called by an account other than the
\* current owner fails and changes nothing; and after the owner's
\* transfer_ownership(new), every setter rejects the previous owner and
\* accepts new.
C20_SettersRequireOwner ==
  /\ \A a \in Accounts : a # owner => RejectedByAll(S, a)
  /\ AcceptedByAll(S, owner)
  /\ \A b \in Accounts :
       LET t == transfer_ownership(S, owner, b) IN
       /\ t.ok /\ t.st.owner = b
       /\ b # owner => RejectedByAll(t.st, owner)
       /\ AcceptedByAll(t.st, b)

\* The ownership has been transferred, and the settings differ from the
\* initial ones.
C20_Witness ==
  /\ owner = "a2"
  /\ treasury = "a3"
  /\ registration_fee = 1001
  /\ referrer_bps = 0
  /\ require_allowlisted_relayer
  /\ relayers["a3"] # None
  /\ coin_fees["a3"] # None

\* ------------------------------------------- NEAR: the relayer allowlist
RegisterNameWithSig ==
  \E c \in MetaRegistrationCalls :
    Apply(RegisterWithSigOn(S, c), c.name, TRUE)

\* Registrations, direct and relayed, and the owner's management of the
\* relayer allowlist.
NextRelayers ==
  \/ RegisterName
  \/ RegisterNameWithSig
  \/ AddRelayer
  \/ RemoveRelayer
  \/ SetRequireAllowlistedRelayer

SpecRelayers == Init /\ [][NextRelayers]_vars

\* relayers.get(&relayer).unwrap_or(false)
Allowlisted(account) == unwrap_or(relayers[account], FALSE)

\* The current state with the allowlist entry of account set to entry.
WithRelayerEntry(account, entry) == [S EXCEPT !.relayers[account] = entry]

\* C21: while require_allowlisted_relayer is true, a register_with_sig
\* whose declared relayer is not in the allowlist is rejected and changes
\* nothing; while it is false, whether register_with_sig succeeds does not
\* depend on the allowlist entry of the declared relayer.
C21_AllowlistEnforcedOnlyWhenRequired ==
  \A c \in MetaRegistrationCalls :
    LET r == RegisterWithSigOn(S, c) IN
    /\ (require_allowlisted_relayer /\ ~Allowlisted(c.relayer)) =>
         ~r.ok /\ r.st = S /\ r.native = <<>> /\ r.ft = <<>>
    /\ ~require_allowlisted_relayer =>
         \A entry \in {None, Some(TRUE), Some(FALSE)} :
           RegisterWithSigOn(WithRelayerEntry(c.relayer, entry), c).ok = r.ok

\* The allowlist is enforced and holds a3: a call relayed by a2, which
\* would succeed without the enforcement, is rejected, and one relayed by
\* a3 succeeds.
C21_Witness ==
  /\ require_allowlisted_relayer
  /\ \E c, d \in MetaRegistrationCalls :
       /\ ~Allowlisted(c.relayer)
       /\ register_with_sig_any_relayer(S, c.sender, c.deposit, c.now, c.name,
            c.owner, c.relayer, c.amount, c.deadline, c.nonce, c.signature).ok
       /\ ~RegisterWithSigOn(S, c).ok
       /\ Allowlisted(d.relayer) /\ RegisterWithSigOn(S, d).ok

\* ------------------------------------------- Solana: who may relay
\* The Solana accounts with a relayer entry for account, as add_relayer
\* for that account leaves it.
SolWithRelayerEntry(account) ==
  [SolS EXCEPT !.relayer_entries[account] = Some([relayer |-> account])]

\* C22: while config.require_allowlisted_relayer is false, a signature
\* registration that succeeds for a relayer with a relayer entry succeeds
\* just the same for a relayer that has none, on both instructions.
C22_AnySignerMayRelay ==
  ~sol_config.require_allowlisted_relayer =>
    /\ \A c \in SolSigCalls :
         SolSigOn(SolWithRelayerEntry(c.relayer), c).ok => SolSigOn(SolS, c).ok
    /\ \A c \in SolSigTokenCalls :
         SolSigTokenOn(SolWithRelayerEntry(c.relayer), c).ok =>
           SolSigTokenOn(SolS, c).ok

\* ------------------------------------- meta-transactions: deadline, relayer
\* C23: every meta-transaction path rejects a request whose deadline is
\* earlier than the current time, and creates no record for it.
C23_ExpiredRequestRejected ==
  /\ \A c \in MetaRegistrationCalls :
       c.deadline < c.now =>
         ~RegisterWithSigOn(S, c).ok /\ RegisterWithSigOn(S, c).st = S
  /\ \A c \in SolSigCalls :
       c.params.deadline < c.now =>
         ~SolSigOn(SolS, c).ok /\ SolSigOn(SolS, c).st = SolS
  /\ \A c \in SolSigTokenCalls :
       c.params.deadline < c.now =>
         ~SolSigTokenOn(SolS, c).ok /\ SolSigTokenOn(SolS, c).st = SolS

\* C24: a meta-transaction registration succeeds only if the caller is the
\* relayer declared in the request, on NEAR and on both Solana signature
\* instructions.
C24_OnlyDeclaredRelayerSucceeds ==
  /\ \A c \in MetaRegistrationCalls :
       RegisterWithSigOn(S, c).ok => c.sender = c.relayer
  /\ \A c \in SolSigCalls : SolSigOn(SolS, c).ok => c.relayer = c.params.relayer
  /\ \A c \in SolSigTokenCalls :
       SolSigTokenOn(SolS, c).ok => c.relayer = c.params.relayer

\* ------------------------------------------------ names are not released
\* C25: once a record is stored for a name, every later step (a
\* registration, a transfer, set_resolved, set_primary_name, an
\* administrative call) leaves a record stored for it.
C25_NamesNeverReleased ==
  [][\A n \in NameInputs :
       (is_valid_name(n) /\ names[name_key(n)] # None)
         => names'[name_key(n)] # None]_vars

\* Both names are registered; one has been transferred away from the
\* account it resolves to and the other resolves to a3 by set_resolved.
C25_Witness ==
  /\ \A k \in Keys : names[k] # None
  /\ \E k \in Keys : Unwrap(names[k]).resolved = Some("a3")
  /\ \E k \in Keys :
       /\ Unwrap(names[k]).resolved \in {Some("a1"), Some("a2")}
       /\ Unwrap(names[k]).resolved # Some(Unwrap(names[k]).owner)

\* ------------------------------------------------ name validation
\* Short strings have at most MaxShortLen bytes.
MaxShortLen == 4

\* Bytes inside and just outside the accepted ranges: a z 0 9 - and
\* ` { / : A.
ProbeBytes == {97, 122, 48, 57, 45, 96, 123, 47, 58, 65}

ShortNames == UNION {[1..n -> ProbeBytes] : n \in 0..MaxShortLen}

\* Strings of a's around the upper length limit, with a or - as the first,
\* second and last byte.
LongNames ==
  {[i \in 1..n |-> IF i = 1 THEN f ELSE IF i = 2 THEN m
                   ELSE IF i = n THEN l ELSE 97] :
     n \in (MAX_NAME_LEN - 1)..(MAX_NAME_LEN + 1),
     f \in {97, 45}, m \in {97, 45}, l \in {97, 45}}

CandidateNames == ShortNames \cup LongNames

\* A string is handed to the validators.
PickCandidate ==
  /\ candidate = <<>> /\ verdict = None
  /\ candidate' \in CandidateNames \ {<<>>}
  /\ verdict' = None
  /\ UNCHANGED <<nearVars, solVars, feeVars>>

\* is_valid_name of the NEAR contract and validate_name of the Solana
\* program run on the string.
ValidateCandidate ==
  /\ verdict = None
  /\ verdict' = Some([near |-> is_valid_name(candidate),
                      sol |-> validate_name(candidate)])
  /\ UNCHANGED <<candidate, nearVars, solVars, feeVars>>

NextValidation == PickCandidate \/ ValidateCandidate

SpecValidation == Init /\ [][NextValidation]_vars

\* The bytes of a-z, 0-9 and the hyphen.
NameAlphabet == (97..122) \cup (48..57) \cup {45}

\* C27: is_valid_name(s), and likewise the Solana validate_name, accepts s
\* exactly when s has between 3 and 63 characters, each a lowercase
\* letter, a digit or a hyphen, does not begin or end with a hyphen and
\* has no two adjacent hyphens.
C27_ValidNameCharacterised ==
  verdict # None =>
    LET s == candidate
        stated == /\ Len(s) >= 3 /\ Len(s) <= 63
                  /\ \A i \in 1..Len(s) : s[i] \in NameAlphabet
                  /\ s[1] # 45 /\ s[Len(s)] # 45
                  /\ \A i \in 1..(Len(s) - 1) : ~(s[i] = 45 /\ s[i + 1] = 45)
    IN /\ Unwrap(verdict).near = stated
       /\ (Unwrap(verdict).sol = "") = stated

\* A name of the greatest length with a hyphen inside has been accepted.
C27_Witness ==
  /\ verdict # None
  /\ Unwrap(verdict).near
  /\ Len(candidate) = MAX_NAME_LEN
  /\ candidate[2] = 45

\* ------------------------------------- registrations of invalid names
\* Registrations of valid and invalid names on both chains, with the
\* tokens and relayers the owners have admitted.
NextValidity ==
  \/ Register
  \/ SetCoinFee
  \/ SolSetTokenFee
  \/ SolAddRelayer
  \/ SolRegisterNameWithToken

SpecValidity == Init /\ [][NextValidity]_vars

\* Names the validators reject: "ab", "-ab", "ab-", "a--b", "aAb".
RejectedNames ==
  {NameAb, <<45, 97, 98>>, <<97, 98, 45>>, <<97, 45, 45, 98>>, <<97, 65, 98>>}

\* The ft_on_transfer call c asking for name n instead.
FtCallFor(c, n) == [c EXCEPT !.msg = Some([Unwrap(c.msg) EXCEPT !.name = n])]

\* The call failed, wrote nothing and scheduled no transfer.
RefusedWithoutEffect(r, before) ==
  ~r.ok /\ r.st = before /\ r.native = <<>> /\ r.ft = <<>>

\* C26: on each of the seven registration paths a registration of a name
\* the validator rejects fails, creating no record, advancing no nonce and
\* issuing no payment.
C26_InvalidNameRefusedEverywhere ==
  /\ \A n \in RejectedNames :
       /\ ~is_valid_name(n)
       /\ \A c \in NameRegisterCalls :
            RefusedWithoutEffect(RegisterOn(S, [c EXCEPT !.name = n]), S)
       /\ \A c \in MetaRegistrationCalls :
            RefusedWithoutEffect(RegisterWithSigOn(S, [c EXCEPT !.name = n]), S)
       /\ \A c \in FtRegistrationCalls :
            RefusedWithoutEffect(FtOnTransferOn(S, FtCallFor(c, n)), S)
  /\ validate_name(NameAb) # ""
  /\ \A c \in SolRegisterCalls :
       c.name = NameAb => RefusedWithoutEffect(SolRegisterOn(SolS, c), SolS)
  /\ \A c \in SolTokenCalls :
       c.name = NameAb => RefusedWithoutEffect(SolTokenOn(SolS, c), SolS)
  /\ \A c \in SolSigCalls :
       c.params.name = NameAb => RefusedWithoutEffect(SolSigOn(SolS, c), SolS)
  /\ \A c \in SolSigTokenCalls :
       c.params.name = NameAb =>
         RefusedWithoutEffect(SolSigTokenOn(SolS, c), SolS)

\* Tokens and a relayer are admitted on both chains, so that on each of
\* the seven paths a registration of a valid name succeeds.
C26_Witness ==
  /\ coin_fees["a3"] # None
  /\ sol_token_fees["a3"] # None
  /\ sol_relayer_entries["a3"] # None
  /\ \E c \in NameRegisterCalls : RegisterOn(S, c).ok
  /\ \E c \in MetaRegistrationCalls : RegisterWithSigOn(S, c).ok
  /\ \E c \in FtRegistrationCalls : FtOnTransferOn(S, c).ok
  /\ \E c \in SolRegisterCalls : SolRegisterOn(SolS, c).ok
  /\ \E c \in SolTokenCalls : SolTokenOn(SolS, c).ok
  /\ \E c \in SolSigCalls : SolSigOn(SolS, c).ok
  /\ \E c \in SolSigTokenCalls : SolSigTokenOn(SolS, c).ok

\* ----------------------------------------------- the Registered event
IsRegisteredEvent(e) == e.event = "Registered"

\* The Registered events among the logs of a call with outcome r.
RegisteredEvents(r) == SelectSeq(r.logs, IsRegisteredEvent)

\* The call with outcome r logged exactly one Registered event, for name,
\* naming rec_owner as the owner and payer as the payer.
OneRegisteredEvent(r, name, rec_owner, payer) ==
  /\ Len(RegisteredEvents(r)) = 1
  /\ RegisteredEvents(r)[1].name = name
  /\ RegisteredEvents(r)[1].owner = rec_owner
  /\ RegisteredEvents(r)[1].payer = payer

\* C28: every successful NEAR registration emits exactly one Registered
\* event, whose owner is the owner of the new record (for register_with_sig
\* the declared owner, not the relayer) and whose payer is the account that
\* paid.
C28_RegisteredEventNamesOwner ==
  /\ \A c \in RegisterCalls :
       RegisterOn(S, c).ok =>
         OneRegisteredEvent(RegisterOn(S, c), c.name, c.sender, c.sender)
  /\ \A c \in RegisterWithSigCalls :
       RegisterWithSigOn(S, c).ok =>
         OneRegisteredEvent(RegisterWithSigOn(S, c), c.name, c.owner, c.sender)
  /\ \A c \in FtOnTransferCalls :
       FtOnTransferOn(S, c).ok =>
         OneRegisteredEvent(FtOnTransferOn(S, c), Unwrap(c.msg).name,
                            FtRecordOwner(c), c.sender_id)

\* The transfers that ft_on_transfer registrations scheduled and that the
\* token contract has not resolved yet.
UnresolvedTransfers == {t \in ft_transfers : t.status = "pending"}

\* C29: while a transfer issued by an ft_on_transfer registration of n is
\* unresolved, get_record(n) returns a record and every register,
\* register_with_sig and ft_on_transfer for n fails.
C29_UnresolvedNameUnavailable ==
  \A t \in UnresolvedTransfers :
    /\ StoredRecord(t.name) # None
    /\ \A c \in RegisterCalls : c.name = t.name => ~RegisterOn(S, c).ok
    /\ \A c \in RegisterWithSigCalls :
         c.name = t.name => ~RegisterWithSigOn(S, c).ok
    /\ \A c \in FtOnTransferCalls :
         FtRegisteredName(c) = Some(t.name) => ~FtOnTransferOn(S, c).ok

\* A transfer for n is unresolved while a paid register and a paid
\* ft_on_transfer for n are both turned away because n is taken.
C29_Witness ==
  \E t \in UnresolvedTransfers :
    /\ \E c \in RegisterCalls :
         /\ c.name = t.name
         /\ c.deposit >= registration_fee
         /\ RegisterOn(S, c).err = "Name is already taken"
    /\ \E c \in FtOnTransferCalls :
         /\ FtRegisteredName(c) = Some(t.name)
         /\ c.token_account = t.token
         /\ FtOnTransferOn(S, c).err = "Name is already taken"

\* Referrer rates and token fees the owner may configure, and the
\* ft_on_transfer registrations paid under them.
PaymentBps == {0, 300, 10000}
PaymentFees == {0, 1, 999, 1001}
PaymentCalls ==
  {c \in FtOnTransferCalls :
     /\ c.token_account = "a3"
     /\ c.now = 0
     /\ c.msg # None
     /\ Unwrap(c.msg).action = "register"
     /\ Unwrap(c.msg).name = NameAc0
     /\ Unwrap(c.msg).owner = None
     /\ Unwrap(c.msg).nonce = None}

\* The registry after its owner has set the referrer rate to bps and the
\* fee of token a3 to fee.
ConfiguredFor(bps, fee) ==
  set_coin_fee(set_referrer_bps(S, owner, bps).st, owner, "a3", fee, TRUE).st

IsReferrerTransfer(t) == t.kind = "referrer"
ReferrerShare(r) == SumAmounts(SelectSeq(r.ft, IsReferrerTransfer))

\* A successful call c on st takes exactly the configured fee.
TakesExactlyFee(st, c) ==
  LET r == FtOnTransferOn(st, c)
      f == Unwrap(st.coin_fees[c.token_account])
  IN r.ok =>
       /\ c.amount >= f
       /\ r.ret = Some(c.amount - f)
       /\ SumAmounts(r.ft) = f
       /\ Unwrap(c.msg).relayer = None => ReferrerShare(r) = 0

\* C30: a successful ft_on_transfer with amount a and token fee f returns
\* a - f as unused, and the referrer transfer and the treasury transfer it
\* issues sum to f, the referrer share being 0 when the message names no
\* relayer.
C30_FtPaymentConserved ==
  /\ \A c \in FtOnTransferCalls : TakesExactlyFee(S, c)
  /\ \A bps \in PaymentBps, fee \in PaymentFees, c \in PaymentCalls :
       TakesExactlyFee(ConfiguredFor(bps, fee), c)

\* A registration that names a relayer pays a referrer share and a
\* treasury share and returns a positive unused amount; one that names no
\* relayer pays the treasury alone.
C30_Witness ==
  /\ \E c \in FtOnTransferCalls :
       /\ c.msg # None
       /\ IsSome(Unwrap(c.msg).relayer)
       /\ FtOnTransferOn(S, c).ok
       /\ Len(FtOnTransferOn(S, c).ft) = 2
       /\ ReferrerShare(FtOnTransferOn(S, c)) > 0
       /\ Unwrap(FtOnTransferOn(S, c).ret) > 0
  /\ \E c \in FtOnTransferCalls :
       /\ c.msg # None
       /\ Unwrap(c.msg).relayer = None
       /\ FtOnTransferOn(S, c).ok
       /\ Len(FtOnTransferOn(S, c).ft) = 1

\* --------------------------------------------------- referrer rate limit
\* Rates at and around the limit of 10000 basis points, up to the largest
\* u16.
BpsLimits == {0, 300, 10000, 10001, 65535}

SetReferrerBpsTo ==
  \E sender \in AdminSenders, bps \in BpsLimits :
    Apply(set_referrer_bps(S, sender, bps), NameAb, FALSE)

SolSetReferrerBps ==
  \E signer \in {"a1", "a2"}, bps \in BpsLimits :
    SolApply(sol_set_referrer_bps(SolS, signer, bps), NameAb, FALSE)

\* The referrer rate of both registries is configured while relayers are
\* allowlisted and signature registrations run on Solana.
NextBps ==
  \/ SetReferrerBpsTo
  \/ SolSetReferrerBps
  \/ SolAddRelayer
  \/ SolRegisterNameWithSignature

SpecBps == Init /\ [][NextBps]_vars

\* The signature registrations on Solana whose split is looked at.
SolSplitCalls ==
  {c \in SolSigCalls :
     c.now = 0 /\ c.lamports = 1000 /\ c.params.nonce = 0
     /\ c.params.amount = 1000}

\* The registry once its owner accepts token a3 at the fee of CoinFeeValues.
WithCoinFee == set_coin_fee(S, owner, "a3", 1001, TRUE).st

IsFeePaidEvent(e) == e.event = "FeePaid"

\* Every FeePaid event of outcome r reports a referrer share of at most
\* the total.
ShareWithinTotal(r) ==
  \A k \in 1..Len(r.logs) :
    IsFeePaidEvent(r.logs[k]) => r.logs[k].ref_amt <= r.logs[k].total

\* C31: in every reachable state of both registries referrer_bps is at
\* most 10000; initialization and set_referrer_bps reject a larger value
\* and leave the stored value as it was; no fee split computes a referrer
\* share larger than the total.
C31_ReferrerBpsBounded ==
  /\ referrer_bps <= 10000
  /\ sol_config.referrer_bps <= 10000
  /\ \A bps \in BpsLimits, fee \in FeeValues :
       bps > 10000 =>
         /\ ~new("a1", "a2", fee, bps).ok
         /\ ~sol_initialize("a1", "a2", fee, bps).ok
  /\ \A bps \in BpsLimits, a \in AdminSenders :
       bps > 10000 =>
         /\ ~set_referrer_bps(S, a, bps).ok
         /\ set_referrer_bps(S, a, bps).st = S
         /\ ~sol_set_referrer_bps(SolS, a, bps).ok
         /\ sol_set_referrer_bps(SolS, a, bps).st = SolS
  /\ \A c \in MetaRegistrationCalls :
       RegisterWithSigOn(S, c).ok => ShareWithinTotal(RegisterWithSigOn(S, c))
  /\ \A c \in PaymentCalls :
       FtOnTransferOn(WithCoinFee, c).ok =>
         ShareWithinTotal(FtOnTransferOn(WithCoinFee, c))
  /\ \A c \in SolSplitCalls :
       SolSigOn(SolS, c).ok => ShareWithinTotal(SolSigOn(SolS, c))

\* Both registries run at the limit of 10000: a NEAR meta registration and
\* a Solana signature registration give the whole total to the referrer,
\* and the administrators' attempts to set 10001 are refused.
C31_Witness ==
  /\ referrer_bps = 10000
  /\ sol_config.referrer_bps = 10000
  /\ ~set_referrer_bps(S, owner, 10001).ok
  /\ ~sol_set_referrer_bps(SolS, sol_config.admin, 10001).ok
  /\ \E c \in MetaRegistrationCalls :
       /\ RegisterWithSigOn(S, c).ok
       /\ RegisterWithSigOn(S, c).logs[1].ref_amt = c.deposit
  /\ \E c \in SolSplitCalls :
       /\ SolSigOn(SolS, c).ok
       /\ SolSigOn(SolS, c).logs[1].ref_amt = SolSigOn(SolS, c).logs[1].total
       /\ SolSigOn(SolS, c).logs[1].total > 0

\* The ft_on_transfer calls that arrive from token.
FtCallsFrom(token) == {c \in FtOnTransferCalls : c.token_account = token}

\* Outcome r took exactly fee from the amount of call c.
TookFee(r, c, fee) ==
  /\ c.amount >= fee
  /\ r.ret = Some(c.amount - fee)
  /\ SumAmounts(r.ft) = fee

\* C32: after set_coin_fee(token, a, true) an ft_on_transfer from token
\* requires exactly a; after set_coin_fee(token, _, false) token has no fee
\* entry and every ft_on_transfer from it is rejected for as long as it has
\* none; the records and primary names stored before are left as they were.
C32_CoinFeeGovernsFtPayment ==
  /\ \A token \in Tokens, a \in PaymentFees :
       LET on == set_coin_fee(S, owner, token, a, TRUE)
           off == set_coin_fee(S, owner, token, a, FALSE)
       IN /\ on.ok /\ off.ok
          /\ on.st.coin_fees[token] = Some(a)
          /\ off.st.coin_fees[token] = None
          /\ on.st.names = names /\ off.st.names = names
          /\ on.st.primary_names = primary_names
          /\ off.st.primary_names = primary_names
          /\ \A c \in FtCallsFrom(token) :
               /\ c.amount < a => ~FtOnTransferOn(on.st, c).ok
               /\ FtOnTransferOn(on.st, c).ok =>
                    TookFee(FtOnTransferOn(on.st, c), c, a)
               /\ FtOnTransferOn(off.st, c).err = "Token not allowed"
                  \/ c.msg = None
                  \/ Unwrap(c.msg).action # "register"
               /\ ~FtOnTransferOn(off.st, c).ok
  /\ \A token \in Tokens :
       coin_fees[token] = None =>
         \A c \in FtCallsFrom(token) : ~FtOnTransferOn(S, c).ok

\* A name was registered with token a3, whose entry has since been
\* removed: the record is still there and a transfer from a3 is refused as
\* not allowed. Enabled again, the same transfer passes the fee check and
\* stops at the taken name; an amount of 1000 passes at fee 999 and not at
\* fee 1001.
C32_Witness ==
  /\ coin_fees["a3"] = None
  /\ \E t \in ft_transfers : t.token = "a3" /\ StoredRecord(t.name) # None
  /\ \E c \in FtCallsFrom("a3") :
       /\ FtOnTransferOn(S, c).err = "Token not allowed"
       /\ FtOnTransferOn(set_coin_fee(S, owner, "a3", 1001, TRUE).st, c).err = "Name is already taken"
  /\ \E c \in FtCallsFrom("a3") :
       /\ c.amount = 1000
       /\ ~FtOnTransferOn(set_coin_fee(S, owner, "a3", 1001, TRUE).st, c).ok
       /\ FtOnTransferOn(set_coin_fee(S, owner, "a3", 999, TRUE).st, c).err = "Name is already taken"

\* Referrer rates under which a share is 0 (rate 0), rounds down to 0 for
\* a total of 1000 (rate 9) or is positive (rate 300).
ShareBps == {0, 9, 300}

\* The registry after its owner has set the referrer rate to bps.
RateSetTo(bps) == set_referrer_bps(S, owner, bps).st

\* The native transfers of outcome r all go to the treasury of st and sum
\* to total, in at most one transfer.
OnlyTreasuryPaid(r, st, total) ==
  /\ Len(r.native) <= 1
  /\ \A k \in 1..Len(r.native) : r.native[k].to = st.treasury
  /\ SumAmounts(r.native) = total

\* C33: no referrer transfer is issued when the referrer share is 0 (rate
\* 0, a share that rounds down to 0, or no relayer), and a direct
\* registration issues no referrer transfer: its whole payment goes to the
\* treasury.
C33_NoReferrerTransferForZeroShare ==
  \A bps \in ShareBps :
    /\ \A c \in RegisterCalls :
         RegisterOn(RateSetTo(bps), c).ok =>
           OnlyTreasuryPaid(RegisterOn(RateSetTo(bps), c), RateSetTo(bps), c.deposit)
    /\ \A c \in MetaRegistrationCalls :
         (RegisterWithSigOn(RateSetTo(bps), c).ok
            /\ (c.deposit * bps) \div BPS_DENOMINATOR = 0) =>
           OnlyTreasuryPaid(RegisterWithSigOn(RateSetTo(bps), c), RateSetTo(bps), c.deposit)
    /\ \A fee \in PaymentFees, c \in PaymentCalls :
         (FtOnTransferOn(ConfiguredFor(bps, fee), c).ok
            /\ (Unwrap(c.msg).relayer = None
                  \/ (fee * bps) \div BPS_DENOMINATOR = 0)) =>
           ReferrerShare(FtOnTransferOn(ConfiguredFor(bps, fee), c)) = 0
           /\ \A k \in 1..Len(FtOnTransferOn(ConfiguredFor(bps, fee), c).ft) :
                FtOnTransferOn(ConfiguredFor(bps, fee), c).ft[k].kind = "treasury"

\* At rate 9 a meta registration with a deposit of 1000 succeeds and pays
\* the treasury alone, at rate 300 it pays its relayer too, and a token
\* registration naming a relayer at rate 0 issues one transfer.
C33_Witness ==
  /\ \E c \in MetaRegistrationCalls :
       /\ RegisterWithSigOn(RateSetTo(9), c).ok
       /\ Len(RegisterWithSigOn(RateSetTo(9), c).native) = 1
       /\ Len(RegisterWithSigOn(RateSetTo(300), c).native) = 2
  /\ \E c \in PaymentCalls :
       /\ IsSome(Unwrap(c.msg).relayer)
       /\ FtOnTransferOn(ConfiguredFor(0, 1001), c).ok
       /\ Len(FtOnTransferOn(ConfiguredFor(0, 1001), c).ft) = 1
  /\ \E c \in RegisterCalls :
       /\ RegisterOn(S, c).ok
       /\ Len(RegisterOn(S, c).native) = 1

\* The counter stored for name n in registry st.
NonceIn(st, n) ==
  IF is_valid_name(n) THEN unwrap_or(st.nonces[name_key(n)], 0) ELSE 0

\* Call c with the nonce of its message replaced by k.
WithNonce(c, k) ==
  [c EXCEPT !.msg = Some([Unwrap(c.msg) EXCEPT !.nonce = Some(k)])]

AliasNames == {NameAc0, NameAar, NameAbc}

RegisterAlias ==
  \E sender \in NameHolders, now \in Times, name \in AliasNames :
    Apply(register(S, sender, 1000, now, name), name, FALSE)

TransferAlias ==
  \E sender \in NameHolders, now \in Times, name \in AliasNames, new_owner \in NameHolders :
    Apply(transfer_name(S, sender, now, name, new_owner), name, FALSE)

SetResolvedAlias ==
  \E sender \in NameHolders, now \in Times, name \in AliasNames, resolved \in {None, Some("a3")} :
    Apply(set_resolved(S, sender, now, name, resolved), name, FALSE)

SetPrimaryAlias ==
  \E sender \in NameHolders, name \in AliasNames :
    Apply(set_primary_name(S, sender, name), name, FALSE)

\* Direct registration and management of names of which two share a key.
NextAliases ==
  \/ RegisterAlias
  \/ TransferAlias
  \/ SetResolvedAlias
  \/ SetPrimaryAlias

SpecAliases == Init /\ [][NextAliases]_vars

\* C35: whenever an account a has a primary name p, a record is stored for
\* p and its owner is a.
C35_PrimaryNameOwned ==
  \A a \in Accounts :
    primary_names[a] # None =>
      /\ StoredRecord(Unwrap(primary_names[a])) # None
      /\ Unwrap(StoredRecord(Unwrap(primary_names[a]))).owner = a

\* get_record(n) on registry st.
RecordIn(st, n) == IF is_valid_name(n) THEN st.names[name_key(n)] ELSE None

\* C36: distinct valid names a and b have distinct storage keys; a
\* successful registration of a leaves get_record(b) as it was, and a
\* successful set_resolved, transfer_name or set_primary_name called with b
\* leaves get_record(a) as it was.
C36_DistinctNamesIndependent ==
  \A a, b \in AliasNames :
    a # b =>
      /\ name_key(a) # name_key(b)
      /\ \A sender \in NameHolders, now \in Times :
           /\ register(S, sender, 1000, now, a).ok =>
                RecordIn(register(S, sender, 1000, now, a).st, b) = RecordIn(S, b)
           /\ \A resolved \in {None, Some("a3")} :
                set_resolved(S, sender, now, b, resolved).ok =>
                  RecordIn(set_resolved(S, sender, now, b, resolved).st, a) = RecordIn(S, a)
           /\ \A new_owner \in NameHolders :
                transfer_name(S, sender, now, b, new_owner).ok =>
                  RecordIn(transfer_name(S, sender, now, b, new_owner).st, a) = RecordIn(S, a)
           /\ set_primary_name(S, sender, b).ok =>
                RecordIn(set_primary_name(S, sender, b).st, a) = RecordIn(S, a)

\* C37: the stored nonce of every name is 0 or 1, and a name whose nonce
\* is 1 has a record.
C37_NonceAtMostOne ==
  \A n \in RegNames :
    is_valid_name(n) =>
      /\ StoredNonce(n) \in {0, 1}
      /\ StoredNonce(n) = 1 => StoredRecord(n) # None

\* A name was registered by a call that carried nonce 0: its counter is 1,
\* and a meta registration carrying nonce 1 for it is refused as taken.
C37_Witness ==
  \E c \in RegisterWithSigCalls :
    /\ c.nonce = 1
    /\ c.deposit >= registration_fee
    /\ c.sender = c.relayer
    /\ StoredNonce(c.name) = 1
    /\ StoredRecord(c.name) # None
    /\ RegisterWithSigOn(S, c).err = "Name is already taken"

\* ------------------------------------------------- ownership of records
\* Registrations and transfers at one block time: the time of a call has
\* no part in who owns a record.
RegisterOwned ==
  \E sender \in NameHolders, name \in AliasNames :
    Apply(register(S, sender, 1000, 0, name), name, FALSE)

TransferOwned ==
  \E sender \in NameHolders, name \in AliasNames, new_owner \in NameHolders :
    Apply(transfer_name(S, sender, 0, name, new_owner), name, FALSE)

SolRegisterOwned ==
  \E user \in SolUsers, name \in SolNames :
    SolApply(register_name(SolS, user, 1000, 0, name), name, FALSE)

SolTransferOwned ==
  \E signer \in SolUsers, name \in SolNames, new_owner \in SolUsers :
    SolApply(sol_transfer_name(SolS, signer, 0, name, new_owner), name, FALSE)

\* Names are registered and transferred on both registries.
NextOwners ==
  \/ RegisterOwned
  \/ TransferOwned
  \/ SolRegisterOwned
  \/ SolTransferOwned

SpecOwners == Init /\ [][NextOwners]_vars

\* Every record stored now is stored in st with the same owner.
NearOwnersKept(st) ==
  \A k \in Keys :
    names[k] # None =>
      /\ st.names[k] # None
      /\ Unwrap(st.names[k]).owner = Unwrap(names[k]).owner

SolOwnersKept(st) ==
  \A n \in NameInputs :
    sol_name_records[n] # None =>
      /\ st.name_records[n] # None
      /\ Unwrap(st.name_records[n]).owner = Unwrap(sol_name_records[n]).owner

\* C38: the owner of a stored record changes only in a successful
\* transfer_name of that record called by its current owner, and then to
\* the new owner named in the call; registrations, set_resolved,
\* set_primary_name and the administrative setters, whoever calls them,
\* leave every stored record with its owner. On both registries.
C38_OwnerChangesOnlyByTransfer ==
  /\ \A c \in NameRegisterCalls : NearOwnersKept(RegisterOn(S, c).st)
  /\ \A c \in MetaRegistrationCalls : NearOwnersKept(RegisterWithSigOn(S, c).st)
  /\ \A c \in FtRegistrationCalls : NearOwnersKept(FtOnTransferOn(WithCoinFee, c).st)
  /\ \A c \in SetResolvedCalls : NearOwnersKept(SetResolvedOn(S, c).st)
  /\ \A c \in SetPrimaryNameCalls : NearOwnersKept(SetPrimaryNameOn(S, c).st)
  /\ \A a \in AdminSenders : \A r \in AdminCallsOn(S, a) : NearOwnersKept(r.st)
  /\ \A c \in TransferNameCalls :
       \A k \in Keys :
         names[k] # None =>
           /\ TransferNameOn(S, c).st.names[k] # None
           /\ Unwrap(TransferNameOn(S, c).st.names[k]).owner # Unwrap(names[k]).owner =>
                /\ TransferNameOn(S, c).ok
                /\ is_valid_name(c.name) /\ k = name_key(c.name)
                /\ c.sender = Unwrap(names[k]).owner
                /\ Unwrap(TransferNameOn(S, c).st.names[k]).owner = c.new_owner
  /\ \A c \in SolRegisterCalls : SolOwnersKept(SolRegisterOn(SolS, c).st)
  /\ \A c \in SolSetResolvedCalls : SolOwnersKept(SolSetResolvedOn(SolS, c).st)
  /\ \A c \in SolSetPrimaryCalls : SolOwnersKept(SolSetPrimaryOn(SolS, c).st)
  /\ \A a \in SolUsers, bps \in BpsLimits :
       SolOwnersKept(sol_set_referrer_bps(SolS, a, bps).st)
  /\ \A c \in SolTransferCalls :
       \A n \in NameInputs :
         sol_name_records[n] # None =>
           /\ SolTransferOn(SolS, c).st.name_records[n] # None
           /\ Unwrap(SolTransferOn(SolS, c).st.name_records[n]).owner # Unwrap(sol_name_records[n]).owner =>
                /\ SolTransferOn(SolS, c).ok
                /\ n = c.name
                /\ c.signer = Unwrap(sol_name_records[n]).owner
                /\ Unwrap(SolTransferOn(SolS, c).st.name_records[n]).owner = c.new_owner

\* On each registry a record is owned by an account other than the
\* administrator a1: the owner's transfer of it succeeds, the
\* administrator's transfer of it is refused, and the administrator's
\* registration of the same name is refused.
C38_Witness ==
  /\ \E c, d \in TransferNameCalls :
       /\ c.name = d.name /\ c.new_owner # c.sender
       /\ c.sender # owner /\ d.sender = owner
       /\ TransferNameOn(S, c).ok /\ ~TransferNameOn(S, d).ok
       /\ \E e \in NameRegisterCalls :
            e.name = c.name /\ e.sender = owner /\ ~RegisterOn(S, e).ok
  /\ \E c, d \in SolTransferCalls :
       /\ c.name = d.name /\ c.new_owner # c.signer
       /\ c.signer # sol_config.admin /\ d.signer = sol_config.admin
       /\ SolTransferOn(SolS, c).ok /\ ~SolTransferOn(SolS, d).ok

\* ------------------------------------------- Solana: change of admin
SolTransferAdmin ==
  \E signer \in Accounts, new_admin \in Accounts :
    SolApply(sol_transfer_admin(SolS, signer, new_admin), NameAb, FALSE)

SolAcceptAdmin ==
  \E signer \in Accounts :
    SolApply(sol_accept_admin(SolS, signer), NameAb, FALSE)

\* The administrator is changed while the administrator's instructions
\* are in use.
NextSolAdmin ==
  \/ SolTransferAdmin
  \/ SolAcceptAdmin
  \/ SolSetReferrerBps
  \/ SolSetTokenFee
  \/ SolAddRelayer

SpecSolAdmin == Init /\ [][NextSolAdmin]_vars

\* The outcomes of the other instructions of the program on the current
\* accounts.
SolOtherOutcomes ==
  {sol_set_referrer_bps(SolS, a, bps) : a \in Accounts, bps \in BpsLimits}
  \cup {sol_set_token_fee(SolS, a, m, 1001, e) :
          a \in Accounts, m \in SolMints, e \in BOOLEAN}
  \cup {sol_add_relayer(SolS, a, b, b) : a \in Accounts, b \in Accounts}
  \cup {SolRegisterOn(SolS, c) : c \in SolRegisterCalls}
  \cup {SolTransferOn(SolS, c) : c \in SolTransferCalls}
  \cup {SolSigOn(SolS, c) : c \in SolSplitCalls}

\* C39: config.admin changes only through accept_admin signed by the
\* account stored in pending_admin. transfer_admin succeeds exactly for
\* the current admin and only sets pending_admin; accept_admin succeeds
\* exactly for the pending admin, makes it the admin and leaves
\* pending_admin None; a failed call changes no account; no other
\* instruction changes admin or pending_admin.
C39_AdminChangesOnlyByAccept ==
  /\ \A a \in Accounts, n \in Accounts :
       LET r == sol_transfer_admin(SolS, a, n) IN
       /\ r.ok <=> a = sol_config.admin
       /\ r.ok => r.st = [SolS EXCEPT !.config.pending_admin = Some(n)]
       /\ ~r.ok => r.st = SolS
  /\ \A a \in Accounts :
       LET r == sol_accept_admin(SolS, a) IN
       /\ r.ok <=> sol_config.pending_admin = Some(a)
       /\ r.ok => r.st = [SolS EXCEPT !.config.admin = a,
                                      !.config.pending_admin = None]
       /\ ~r.ok => r.st = SolS
  /\ \A r \in SolOtherOutcomes :
       /\ r.st.config.admin = sol_config.admin
       /\ r.st.config.pending_admin = sol_config.pending_admin

\* The administration has been handed over once already and a further
\* hand-over is pending: the pending account can accept, the current and
\* the first administrator cannot, and the current one alone can name
\* another pending account.
C39_Witness ==
  /\ sol_config.admin = "a2"
  /\ sol_config.pending_admin = Some("a3")
  /\ sol_accept_admin(SolS, "a3").ok
  /\ sol_accept_admin(SolS, "a3").st.config.admin = "a3"
  /\ ~sol_accept_admin(SolS, "a2").ok
  /\ ~sol_accept_admin(SolS, "a1").ok
  /\ sol_transfer_admin(SolS, "a2", "a1").ok
  /\ ~sol_transfer_admin(SolS, "a1", "a1").ok

====
